---- MODULE Spec2Model ----
(***************************************************************************)
(* Verification model of the ForgeIO gateway server.                       *)
(*                                                                         *)
(* Part I  : OpcUaDriver (drivers/opcua.rs): connect with retry/backoff,   *)
(*           disconnect, check_status, read_tags and write_tags, called by *)
(*           concurrent tasks that share one driver behind an Arc.         *)
(* Part II : TagEngine (tags/engine.rs): the DashMap-backed point table    *)
(*           accessed by concurrent threads.                               *)
(* Part III: main (main.rs): driver initialisation, tag registration and   *)
(*           the polling task over the drivers and the point table.        *)
(***************************************************************************)
EXTENDS Integers, Sequences, FiniteSets, TLC

(***************************************************************************)
(* Bounds of the model.                                                    *)
(***************************************************************************)
\* number of tasks that call into the shared driver concurrently
MaxCallers == 2
\* number of sessions the remote server can hold at one time
MaxSessions == 2
\* largest configured connect_retry_attempts
MaxRetryAttempts == 2
\* largest configured connect_retry_delay_ms
MaxDelay == 3

\* Option<T>: None is the empty tuple and Some(x) a one-element tuple
None == <<>>
Some(x) == <<x>>

Callers == 1..MaxCallers
SessionIds == 1..MaxSessions

(***************************************************************************)
(* DriverConfig (drivers/traits.rs): the optional retry parameters, in ms.  *)
(* connect_timeout_ms is the deadline of one attempt; whether an attempt    *)
(* reaches it is the choice of the attempt's outcome.                       *)
(* A backoff factor is a rational <<num, den>> whose denominator is a      *)
(* power of two, so that the f64 product delay * backoff is exact.         *)
(***************************************************************************)
Backoffs == {<<1, 2>>, <<1, 1>>, <<3, 2>>, <<2, 1>>}

DriverConfig ==
    [connect_retry_attempts : {None} \cup {Some(n) : n \in 0..MaxRetryAttempts},
     connect_retry_delay_ms : {None} \cup {Some(d) : d \in 0..MaxDelay},
     connect_retry_backoff  : {None} \cup {Some(b) : b \in Backoffs},
     connect_timeout_ms     : {None}]

\* the configuration of the driver tests (tests/opcua_driver_extended.rs
\* lines 6-22): 3 retries, 100 ms, backoff 1.5, a deadline of 500 ms
UnreachableConfig ==
    [connect_retry_attempts |-> Some(3),
     connect_retry_delay_ms |-> Some(100),
     connect_retry_backoff  |-> Some(<<3, 2>>),
     connect_timeout_ms     |-> Some(500)]

\* Option::unwrap_or
unwrap_or(opt, default) == IF opt = None THEN default ELSE opt[1]

VARIABLES
    tasks,        \* the tasks that hold an Arc to the driver and call it
    config,       \* the driver's DriverConfig, fixed at construction
    client,       \* OpcUaDriver.client  : None or the id of the held Client
    session,      \* OpcUaDriver.session : None or the id of the held Session
    connected,    \* sessions for which Session::is_connected() is true
    pc,           \* per caller: position inside the call in progress
    op,           \* per caller: the driver method being called
    attempt,      \* connect's local `attempt`
    delay,        \* connect's local `delay`
    made,         \* per call: number of underlying connect attempts spawned
    sleeps,       \* per call: the durations slept so far, in order
    outcome,      \* per call: how the latest attempt, or the read, ended
    local,        \* per call: the (client, session) pair or taken session
    result,       \* per call: "ok" / "err" once returned
    stored,       \* per caller: a connect stored a session since this
                  \* caller's disconnect took it
    overlap       \* per caller: the callers whose connect call was in
                  \* progress when this caller's disconnect was issued

dvars == <<tasks, config, client, session, connected, pc, op, attempt, delay,
           made, sleeps, outcome, local, result, stored, overlap>>

(***************************************************************************)
(* TagEngine (tags/engine.rs) over tags/structures.rs.                     *)
(***************************************************************************)
\* number of threads that share the TagEngine
MaxThreads == 2

Threads == 1..MaxThreads
Paths == {"Device/Tag1", "Device/Tag2"}
\* the shards of the DashMap, each behind its own RwLock
Shards == {1, 2}

\* TagValue { value, quality, timestamp } (structures.rs lines 22-27)
TagValue(v, q, ts) == [value |-> v, quality |-> q, timestamp |-> ts]
\* the value passed to update_tag_value calls
NewValues == {TagValue(42, "Good", 2)}

\* Tag { path, value, driver_id, driver_address, poll_rate_ms, metadata }
\* (structures.rs lines 61-75)
Tag(p, v, d, a, r, m) ==
    [path |-> p, value |-> v, driver_id |-> d, driver_address |-> a,
     poll_rate_ms |-> r, metadata |-> m]
\* the tags passed to register_tag: two definitions per path
NewTags ==
    {Tag(p, TagValue(0, "Good", 1), "drv1", "addr1", 1000, "m1") : p \in Paths}
      \cup {Tag(p, TagValue(7, "Bad", 3), "drv2", "addr2", 500, "m2") : p \in Paths}

VARIABLES
    tags,         \* TagEngine.tags: path -> None or Some(Tag)
    shard,        \* the shard each key hashes to
    lock,         \* per shard: the holder of the write lock (0: free) and
                  \* the holders of the read lock
    tpc,          \* per thread: position inside the call in progress
    call,         \* per thread: the method called and its arguments
    ret,          \* per thread: the value returned
    latest        \* per path: the TagValue of the latest write that returned

evars == <<tags, shard, lock, tpc, call, ret, latest>>

(***************************************************************************)
(* main (main.rs): startup and the polling task.  Instants and durations   *)
(* are counted in units of base_interval (100 ms).                         *)
(***************************************************************************)
\* the clock stops at MaxTime
MaxTime == 3
\* how far the clock may run ahead of the interval's next deadline
MaxLag == 1

\* Duration::from_millis(100) (main.rs line 142): the unit of time
base_interval == 1
\* Duration::from_secs(60) (main.rs line 153), in units of base_interval
LongAgo == 600

\* the ids of the configured devices
DriverIds == {"drv1", "drv2"}
\* address strings that NodeId::from_str accepts
NodeIds == {"ns=2;s=Temperature", "ns=2;s=Pressure"}
\* the address strings of the configured tags, one of them not a NodeId
Addresses == NodeIds \cup {"Temperature"}

\* TagConfig { path, driver_id, address, poll_rate_ms } (settings.rs 10-16)
TagConfig(p, d, a, r) ==
    [path |-> p, driver_id |-> d, address |-> a, poll_rate_ms |-> r]

\* Settings { devices, tags } (settings.rs 19-25): the configurations loaded
\*  1: two tags of one driver with the same address and the same poll rate
\*  2: two tags of one driver with the same address and different poll
\*     rates, one of them above 60 s
\*  3: two drivers with a tag of the same address each, one of a poll rate
\*     of exactly 60 s
\*  4: two tags of one group, the address of one not a NodeId
\*  5: a tag of a device that is not configured, and a tag of poll rate 0
SettingsChoices ==
    {[devices |-> <<"drv1">>,
      tags |-> <<TagConfig("Device/Tag1", "drv1", "ns=2;s=Temperature", 1),
                 TagConfig("Device/Tag2", "drv1", "ns=2;s=Temperature", 1)>>],
     [devices |-> <<"drv1">>,
      tags |-> <<TagConfig("Device/Tag1", "drv1", "ns=2;s=Temperature", 2),
                 TagConfig("Device/Tag2", "drv1", "ns=2;s=Temperature", 601)>>],
     [devices |-> <<"drv1", "drv2">>,
      tags |-> <<TagConfig("Device/Tag1", "drv1", "ns=2;s=Temperature", 600),
                 TagConfig("Device/Tag2", "drv2", "ns=2;s=Temperature", 2)>>],
     [devices |-> <<"drv1">>,
      tags |-> <<TagConfig("Device/Tag1", "drv1", "ns=2;s=Temperature", 2),
                 TagConfig("Device/Tag2", "drv1", "Temperature", 2)>>],
     [devices |-> <<"drv1">>,
      tags |-> <<TagConfig("Device/Tag1", "drv2", "ns=2;s=Pressure", 1),
                 TagConfig("Device/Tag2", "drv1", "ns=2;s=Pressure", 0)>>]}

VARIABLES
    settings,         \* the Settings loaded from config.toml
    mpc,              \* main's position: drivers, tags, serving, exited
    idx,              \* main's position in settings.devices / settings.tags
    driver_instances, \* the ids of the drivers in the registry
    link,             \* per driver: its session ("none", "live", "lost")
    server_up,        \* per driver: the remote server is reachable
    iter_order,       \* the order in which the DashMap iterates its keys
    spc,              \* the polling task's position
    poll_groups,      \* (driver_id, poll_rate_ms) -> the paths of the group
    group_order,      \* the order in which poll_groups iterates its keys
    last_poll_times,  \* (driver_id, poll_rate_ms) -> None or Some(instant)
    time,             \* the clock
    now,              \* the `now` of the tick being processed
    deadline,         \* the instant of tick_interval's next tick
    cursor,           \* position of the tick's loop in group_order
    history,          \* per group: its latest two polls, each with the
                      \* `now` of its tick, the instant the read was
                      \* issued and the read's result
    lost_at           \* per driver: None or Some(instant the session died)

mvars == <<settings, mpc, idx, driver_instances, link, server_up, iter_order,
           spc, poll_groups, group_order, last_poll_times, time, now,
           deadline, cursor, history, lost_at>>

(***************************************************************************)
(* The HTTP handlers (api/rest.rs, main.rs) over a SharedAppState, and the  *)
(* callers of TagEngine::register_tag other than main.                      *)
(***************************************************************************)
MaxClients == 2

Clients == 1..MaxClients

\* what the registry holds under an id: an OpcUaDriver, or another
\* implementation of DeviceDriver
DriverKinds == {"opcua", "other"}

\* the driver ids of the requests: the configured ones and an unknown one
RequestIds == DriverIds \cup {"nonexistent"}

VARIABLES
    late,             \* the paths registered after the poll groups were built
    settings_arc,     \* SharedAppState.settings: the Settings behind the RwLock
    disk,             \* the content of config.toml
    kind,             \* per driver id: the kind of driver the registry holds
    apc,              \* per client: the position of its request's handler
    areq,             \* per client: the request being handled
    aresp             \* per client: None or the response

avars == <<late, settings_arc, disk, kind, apc, areq, aresp>>

vars == <<dvars, evars, mvars, avars>>

NoCall == [method |-> "none"]

\* TagEngine::new (lines 13-17), no call in progress
EngineNew ==
    /\ tags = [p \in Paths |-> None]
    /\ lock = [s \in Shards |-> [writer |-> 0, readers |-> {}]]
    /\ tpc = [t \in Threads |-> "idle"]
    /\ call = [t \in Threads |-> NoCall]
    /\ ret = [t \in Threads |-> None]
    /\ latest = [p \in Paths |-> None]

\* connect()'s reading of the configuration, opcua.rs lines 104-106
max_retries == unwrap_or(config.connect_retry_attempts, 0)
initial_delay == unwrap_or(config.connect_retry_delay_ms, 0)
backoff == unwrap_or(config.connect_retry_backoff, <<2, 1>>)
\* line 107
timeout_ms == unwrap_or(config.connect_timeout_ms, 5000)

is_some_skipped(opt) == FALSE

\* `self.client.lock().unwrap().is_some()` (line 99)
is_some(opt) == opt # None

ShouldRetryInclusive(a, m) == a <= m

\* `Err(..) if attempt < max_retries` (lines 162, 172, 182)
ShouldRetry(a, m) == a < m

NextDelayRoundedUp(d, b) == (d * b[1] + b[2] - 1) \div b[2]

\* `delay = (delay as f64 * backoff) as u64` (line 199): the cast truncates
NextDelay(d, b) == (d * b[1]) \div b[2]

\* `if delay > 0 { sleep(..) }` (line 197)
DoesSleep(d) == d > 0

\* ids not held by the driver, by a call in progress, or by the server
Held == {client, session} \cup {local[c] : c \in Callers}
InUse == connected \cup {s \in SessionIds : Some(s) \in Held}
FreeIds == SessionIds \ InUse

\* DriverConfig::connect_* all omitted (serde default, traits.rs 26-33)
DefaultConfig ==
    [connect_retry_attempts |-> None,
     connect_retry_delay_ms |-> None,
     connect_retry_backoff  |-> None,
     connect_timeout_ms     |-> None]

\* OpcUaDriver::new (lines 21-27): no handle held, no call in progress
DriverIdle ==
    /\ client = None
    /\ session = None
    /\ connected = {}
    /\ pc = [c \in Callers |-> "idle"]
    /\ op = [c \in Callers |-> "none"]
    /\ attempt = [c \in Callers |-> 0]
    /\ delay = [c \in Callers |-> 0]
    /\ made = [c \in Callers |-> 0]
    /\ sleeps = [c \in Callers |-> <<>>]
    /\ outcome = [c \in Callers |-> "none"]
    /\ local = [c \in Callers |-> None]
    /\ result = [c \in Callers |-> "none"]
    /\ stored = [c \in Callers |-> FALSE]
    /\ overlap = [c \in Callers |-> {}]

\* Either one task drives a driver of any configuration, or all tasks share
\* a driver of the default configuration.
DriverInit ==
    /\ \/ tasks = {1} /\ config \in DriverConfig \cup {UnreachableConfig}
       \/ tasks = Callers /\ config = DefaultConfig
    /\ DriverIdle

----------------------------------------------------------------------------
(* connect, opcua.rs lines 98-203 *)

\* lines 98-108: the idempotence check and the initialisation of the locals
ConnectBegin(c) ==
    /\ c \in tasks
    /\ pc[c] = "idle"
    /\ op' = [op EXCEPT ![c] = "connect"]
    /\ IF is_some(client)
         THEN /\ pc' = [pc EXCEPT ![c] = "done"]
              /\ result' = [result EXCEPT ![c] = "ok"]
              /\ UNCHANGED <<attempt, delay>>
         ELSE /\ pc' = [pc EXCEPT ![c] = "attempting"]
              /\ attempt' = [attempt EXCEPT ![c] = 0]
              /\ delay' = [delay EXCEPT ![c] = initial_delay]
              /\ UNCHANGED result
    /\ UNCHANGED <<evars, mvars, avars, tasks, config, overlap, client, session, connected, made, sleeps,
                   outcome, local, stored>>

\* lines 110-158: one attempt that returns (client, session), and the store
\* of the client: *self.client.lock().unwrap() = Some(client)
ConnectAttemptOk(c) ==
    /\ pc[c] = "attempting"
    /\ FreeIds # {}
    /\ LET s == CHOOSE x \in FreeIds : \A y \in FreeIds : x <= y IN
         /\ connected' = connected \cup {s}
         /\ local' = [local EXCEPT ![c] = Some(s)]
         /\ client' = Some(s)
    /\ made' = [made EXCEPT ![c] = @ + 1]
    /\ outcome' = [outcome EXCEPT ![c] = "ok"]
    /\ pc' = [pc EXCEPT ![c] = "store_session"]
    /\ UNCHANGED <<evars, mvars, avars, tasks, config, overlap, session, op, attempt, delay, sleeps, result,
                   stored>>

\* lines 110-153, 162-195: one attempt that fails by error, by join error
\* or by reaching the deadline; retried or surfaced
ConnectAttemptFail(c, how) ==
    /\ pc[c] = "attempting"
    /\ made' = [made EXCEPT ![c] = @ + 1]
    /\ outcome' = [outcome EXCEPT ![c] = how]
    /\ IF ShouldRetry(attempt[c], max_retries)
         THEN /\ pc' = [pc EXCEPT ![c] = "backoff"]
              /\ UNCHANGED result
         ELSE /\ pc' = [pc EXCEPT ![c] = "done"]
              /\ result' = [result EXCEPT ![c] = "err"]
    /\ UNCHANGED <<evars, mvars, avars, tasks, config, overlap, client, session, connected, op, attempt, delay,
                   sleeps, local, stored>>

\* lines 197-201: the sleep, the delay update and the attempt counter
ConnectBackoff(c) ==
    /\ pc[c] = "backoff"
    /\ IF DoesSleep(delay[c])
         THEN /\ sleeps' = [sleeps EXCEPT ![c] = Append(@, delay[c])]
              /\ delay' = [delay EXCEPT ![c] = NextDelay(@, backoff)]
         ELSE UNCHANGED <<sleeps, delay>>
    /\ attempt' = [attempt EXCEPT ![c] = @ + 1]
    /\ pc' = [pc EXCEPT ![c] = "attempting"]
    /\ UNCHANGED <<evars, mvars, avars, tasks, config, overlap, client, session, connected, op, made, outcome,
                   local, result, stored>>

\* lines 159-160: *self.session.lock().unwrap() = Some(session); Ok(())
ConnectStoreSession(c) ==
    /\ pc[c] = "store_session"
    /\ session' = local[c]
    /\ stored' = [x \in Callers |-> op[x] = "disconnect"]
    /\ local' = [local EXCEPT ![c] = None]
    /\ result' = [result EXCEPT ![c] = "ok"]
    /\ pc' = [pc EXCEPT ![c] = "done"]
    /\ UNCHANGED <<evars, mvars, avars, tasks, config, overlap, client, connected, op, attempt, delay, made,
                   sleeps, outcome>>

----------------------------------------------------------------------------
(* disconnect, opcua.rs lines 205-216 *)

CloneSession(s) == s

\* line 206: self.session.lock().unwrap().take()
TakeSession(s) == None

\* the callers inside a connect call that has not returned
Connecting == {x \in Callers : op[x] = "connect" /\ pc[x] # "done"}

\* lines 206-207
DisconnectTake(c) ==
    /\ c \in tasks
    /\ pc[c] = "idle"
    /\ op' = [op EXCEPT ![c] = "disconnect"]
    /\ local' = [local EXCEPT ![c] = session]
    /\ session' = TakeSession(session)
    /\ stored' = [stored EXCEPT ![c] = FALSE]
    /\ overlap' = [overlap EXCEPT ![c] = Connecting]
    /\ pc' = [pc EXCEPT ![c] = IF session = None THEN "clear_client"
                                                 ELSE "teardown"]
    /\ UNCHANGED <<evars, mvars, avars, tasks, config, client, connected, attempt, delay, made, sleeps,
                   outcome, result>>

\* lines 208-212: the blocking session.read().disconnect(); a join error
\* (the blocking task panicked, before or after closing the session)
\* returns Err and skips line 214
DisconnectTeardown(c, joined) ==
    /\ pc[c] = "teardown"
    /\ IF joined
         THEN /\ connected' = connected \ {local[c][1]}
              /\ pc' = [pc EXCEPT ![c] = "clear_client"]
              /\ UNCHANGED result
         ELSE /\ connected' \in {connected, connected \ {local[c][1]}}
              /\ pc' = [pc EXCEPT ![c] = "done"]
              /\ result' = [result EXCEPT ![c] = "err"]
    /\ UNCHANGED <<evars, mvars, avars, tasks, config, overlap, client, session, op, attempt, delay, made,
                   sleeps, outcome, local, stored>>

\* lines 214-215: *self.client.lock().unwrap() = None; Ok(())
DisconnectClear(c) ==
    /\ pc[c] = "clear_client"
    /\ client' = None
    /\ result' = [result EXCEPT ![c] = "ok"]
    /\ pc' = [pc EXCEPT ![c] = "done"]
    /\ UNCHANGED <<evars, mvars, avars, tasks, config, overlap, session, connected, op, attempt, delay, made,
                   sleeps, outcome, local, stored>>

----------------------------------------------------------------------------
(* check_status, opcua.rs lines 218-226 *)

StatusOkIfHeld(s, live) == s # None

\* lines 219-225: a session is held and session.is_connected()
StatusOk(s, live) == s # None /\ s[1] \in live

CheckStatus(c) ==
    /\ c \in tasks
    /\ pc[c] = "idle"
    /\ op' = [op EXCEPT ![c] = "check_status"]
    /\ result' = [result EXCEPT ![c] =
                    IF StatusOk(session, connected) THEN "ok" ELSE "err"]
    /\ pc' = [pc EXCEPT ![c] = "done"]
    /\ UNCHANGED <<evars, mvars, avars, tasks, config, overlap, client, session, connected, attempt, delay, made,
                   sleeps, outcome, local, stored>>

----------------------------------------------------------------------------
(* read_tags and write_tags, opcua.rs lines 228-286 *)

\* parse_node_id (opcua.rs lines 29-34): NodeId::from_str
parse_node_id(address) == IF address \in NodeIds THEN Some(address) ELSE None

\* the addresses of the requests all parse (opcua.rs lines 236-238)
AllParse(requests) ==
    \A i \in DOMAIN requests : parse_node_id(requests[i]) # None

\* the request lists of the callers of read_tags: empty, of one NodeId, of
\* a NodeId and a string that is not one
ReadRequests ==
    {<<>>, <<"ns=2;s=Temperature">>, <<"ns=2;s=Temperature", "Temperature">>}

NotConnectedNever(s) == FALSE

\* `guard.clone().ok_or("not connected")?` (lines 229-232)
NotConnected(s) == s = None

\* lines 228-279 as the caller sees them: Err("not connected") without a
\* session, Err for an address that does not parse, Err when session.read
\* fails (the service call fails, or the session is not connected any
\* more), Ok otherwise; no field of the driver is assigned
ReadTags(c, requests, io_error) ==
    /\ c \in tasks
    /\ pc[c] = "idle"
    /\ op' = [op EXCEPT ![c] = "read_tags"]
    /\ LET how == IF NotConnected(session) THEN "not connected"
                  ELSE IF ~AllParse(requests) THEN "invalid node id"
                  ELSE IF io_error \/ {s \in connected : session = Some(s)} = {}
                    THEN "read error"
                  ELSE "ok"
       IN /\ outcome' = [outcome EXCEPT ![c] = how]
          /\ result' = [result EXCEPT ![c] = IF how = "ok" THEN "ok" ELSE "err"]
    /\ pc' = [pc EXCEPT ![c] = "done"]
    /\ UNCHANGED <<evars, mvars, avars, tasks, config, overlap, client, session, connected, attempt,
                   delay, made, sleeps, local, stored>>

\* lines 281-286: Ok(HashMap::new()), whatever the tags
WriteTags(c) ==
    /\ c \in tasks
    /\ pc[c] = "idle"
    /\ op' = [op EXCEPT ![c] = "write_tags"]
    /\ outcome' = [outcome EXCEPT ![c] = "ok"]
    /\ result' = [result EXCEPT ![c] = "ok"]
    /\ pc' = [pc EXCEPT ![c] = "done"]
    /\ UNCHANGED <<evars, mvars, avars, tasks, config, overlap, client, session, connected, attempt,
                   delay, made, sleeps, local, stored>>

----------------------------------------------------------------------------
\* the caller receives the DriverResult; its locals are dropped
Return(c) ==
    /\ pc[c] = "done"
    /\ pc' = [pc EXCEPT ![c] = "idle"]
    /\ op' = [op EXCEPT ![c] = "none"]
    /\ attempt' = [attempt EXCEPT ![c] = 0]
    /\ delay' = [delay EXCEPT ![c] = 0]
    /\ made' = [made EXCEPT ![c] = 0]
    /\ sleeps' = [sleeps EXCEPT ![c] = <<>>]
    /\ outcome' = [outcome EXCEPT ![c] = "none"]
    /\ local' = [local EXCEPT ![c] = None]
    /\ result' = [result EXCEPT ![c] = "none"]
    /\ stored' = [stored EXCEPT ![c] = FALSE]
    /\ overlap' = [x \in Callers |-> IF x = c THEN {} ELSE overlap[x] \ {c}]
    /\ UNCHANGED <<evars, mvars, avars, tasks, config, client, session, connected>>

\* the remote end drops a session: is_connected() turns false
RemoteClose ==
    /\ \E s \in connected : connected' = connected \ {s}
    /\ UNCHANGED <<evars, mvars, avars, tasks, config, overlap, client, session, pc, op, attempt, delay, made,
                   sleeps, outcome, local, result, stored>>

FailureKinds == {"error", "join_error", "timeout"}

ConnectStep(c) ==
    \/ ConnectBegin(c)
    \/ ConnectAttemptOk(c)
    \/ \E how \in FailureKinds : ConnectAttemptFail(c, how)
    \/ ConnectBackoff(c)
    \/ ConnectStoreSession(c)

DisconnectStep(c) ==
    \/ DisconnectTake(c)
    \/ \E joined \in BOOLEAN : DisconnectTeardown(c, joined)
    \/ DisconnectClear(c)

DriverNext ==
    \/ \E c \in Callers : ConnectStep(c)
    \/ \E c \in Callers : DisconnectStep(c)
    \/ \E c \in Callers : CheckStatus(c)
    \/ \E c \in Callers, requests \in ReadRequests, io_error \in BOOLEAN :
          ReadTags(c, requests, io_error)
    \/ \E c \in Callers : WriteTags(c)
    \/ \E c \in Callers : Return(c)
    \/ RemoteClose

----------------------------------------------------------------------------
(* The driver's locks.  The same four methods, one step per acquisition of  *)
(* a lock and per statement executed under it: the client mutex (line 16),  *)
(* the session mutex (line 17) and the RwLock of each session.  A caller    *)
(* holds a lock at the positions between the statement that acquires it     *)
(* and the drop of its guard.                                               *)

GuardsKept(lk) ==
    IF lk = "client"
      THEN {"connect: checking", "attempting", "backoff",
            "connect: connected", "connect: storing client", "clearing client"}
      ELSE {"connect: storing session", "taking session", "status: locked",
            "status: reading", "cloning session"}

\* the positions at which a caller holds the client mutex (the temporaries
\* of lines 99, 158 and 214) and the session mutex (the temporary of line
\* 159, the blocks of lines 206 and 229-232, the scrutinee of the `if let`
\* of lines 219-224)
Guards(lk) ==
    IF lk = "client"
      THEN {"connect: checking", "connect: storing client", "clearing client"}
      ELSE {"connect: storing session", "taking session", "status: locked",
            "status: reading", "cloning session"}

\* std::sync::Mutex::lock returns when no task holds the mutex
MutexFree(lk) == \A x \in Callers : pc[x] \notin Guards(lk)

\* the holders of the read lock and of the write lock of session s:
\* session.read() in disconnect's blocking task (line 209) and in
\* check_status (line 220), session_arc.write() in read_tags (line 233)
Readers(s) ==
    {x \in Callers : \/ pc[x] = "closing" /\ local[x] = Some(s)
                     \/ pc[x] = "status: reading" /\ session = Some(s)}
Writers(s) == {x \in Callers : pc[x] = "reading tags" /\ local[x] = Some(s)}

\* RwLock::read and RwLock::write return
CanLockRead(s) == Writers(s) = {}
CanLockWrite(s) == Writers(s) = {} /\ Readers(s) = {}

\* the variables that no step of this section assigns
LockFrame == <<evars, mvars, avars, tasks, config, stored, overlap>>

\* a method is called
LockCall(c, method) ==
    /\ c \in tasks
    /\ pc[c] = "idle"
    /\ op' = [op EXCEPT ![c] = method]
    /\ pc' = [pc EXCEPT ![c] = "called"]
    /\ attempt' = [attempt EXCEPT ![c] = 0]
    /\ delay' = [delay EXCEPT ![c] = initial_delay]
    /\ UNCHANGED <<LockFrame, client, session, connected, made, sleeps,
                   outcome, local, result>>

\* the first statement of each method locks a mutex: self.client in connect
\* (line 99), self.session in the others (lines 206, 219, 230)
LockFirst(c) ==
    /\ pc[c] = "called"
    /\ IF op[c] = "connect"
         THEN MutexFree("client") /\ pc' = [pc EXCEPT ![c] = "connect: checking"]
         ELSE /\ MutexFree("session")
              /\ pc' = [pc EXCEPT ![c] =
                    IF op[c] = "disconnect" THEN "taking session"
                    ELSE IF op[c] = "check_status" THEN "status: locked"
                    ELSE "cloning session"]
    /\ UNCHANGED <<LockFrame, client, session, connected, op, attempt, delay,
                   made, sleeps, outcome, local, result>>

\* connect, lines 99-101: is_some() under the client mutex
LockConnectChecked(c) ==
    /\ pc[c] = "connect: checking"
    /\ IF is_some(client)
         THEN /\ pc' = [pc EXCEPT ![c] = "done"]
              /\ result' = [result EXCEPT ![c] = "ok"]
         ELSE /\ pc' = [pc EXCEPT ![c] = "attempting"]
              /\ UNCHANGED result
    /\ UNCHANGED <<LockFrame, client, session, connected, op, attempt, delay,
                   made, sleeps, outcome, local>>

\* connect, lines 110-157: an attempt returns (client, session)
LockAttemptOk(c) ==
    /\ pc[c] = "attempting"
    /\ FreeIds # {}
    /\ LET s == CHOOSE x \in FreeIds : \A y \in FreeIds : x <= y IN
         /\ connected' = connected \cup {s}
         /\ local' = [local EXCEPT ![c] = Some(s)]
    /\ made' = [made EXCEPT ![c] = @ + 1]
    /\ outcome' = [outcome EXCEPT ![c] = "ok"]
    /\ pc' = [pc EXCEPT ![c] = "connect: connected"]
    /\ UNCHANGED <<LockFrame, client, session, op, attempt, delay, sleeps,
                   result>>

\* a statement that locks a mutex is reached and the mutex is acquired:
\* lines 158 and 214 (client), line 159 (session)
LockAcquire(c) ==
    /\ \/ /\ pc[c] = "connect: connected"
          /\ MutexFree("client")
          /\ pc' = [pc EXCEPT ![c] = "connect: storing client"]
       \/ /\ pc[c] = "connect: client stored"
          /\ MutexFree("session")
          /\ pc' = [pc EXCEPT ![c] = "connect: storing session"]
       \/ /\ pc[c] = "closed"
          /\ MutexFree("client")
          /\ pc' = [pc EXCEPT ![c] = "clearing client"]
    /\ UNCHANGED <<LockFrame, client, session, connected, op, attempt, delay,
                   made, sleeps, outcome, local, result>>

\* connect, line 158: the client is stored and the guard dropped
LockStoreClient(c) ==
    /\ pc[c] = "connect: storing client"
    /\ client' = local[c]
    /\ pc' = [pc EXCEPT ![c] = "connect: client stored"]
    /\ UNCHANGED <<LockFrame, session, connected, op, attempt, delay, made,
                   sleeps, outcome, local, result>>

\* connect, lines 159-160: the session is stored, the guard dropped, Ok(())
LockStoreSession(c) ==
    /\ pc[c] = "connect: storing session"
    /\ session' = local[c]
    /\ local' = [local EXCEPT ![c] = None]
    /\ result' = [result EXCEPT ![c] = "ok"]
    /\ pc' = [pc EXCEPT ![c] = "done"]
    /\ UNCHANGED <<LockFrame, client, connected, op, attempt, delay, made,
                   sleeps, outcome>>

\* disconnect, line 206: take() under the session mutex
LockTake(c) ==
    /\ pc[c] = "taking session"
    /\ local' = [local EXCEPT ![c] = session]
    /\ session' = TakeSession(session)
    /\ pc' = [pc EXCEPT ![c] = IF session = None THEN "closed" ELSE "taken"]
    /\ UNCHANGED <<LockFrame, client, connected, op, attempt, delay, made,
                   sleeps, outcome, result>>

\* disconnect, line 209: the blocking task takes the session's read lock
LockClose(c) ==
    /\ pc[c] = "taken"
    /\ CanLockRead(local[c][1])
    /\ pc' = [pc EXCEPT ![c] = "closing"]
    /\ UNCHANGED <<LockFrame, client, session, connected, op, attempt, delay,
                   made, sleeps, outcome, local, result>>

\* disconnect, lines 209-212: Session::disconnect returns and the read lock
\* is released; or the blocking task panics (the guard is dropped by the
\* unwinding) and the join error is returned
LockClosed(c, joined) ==
    /\ pc[c] = "closing"
    /\ IF joined
         THEN /\ connected' = connected \ {local[c][1]}
              /\ pc' = [pc EXCEPT ![c] = "closed"]
              /\ UNCHANGED result
         ELSE /\ connected' \in {connected, connected \ {local[c][1]}}
              /\ pc' = [pc EXCEPT ![c] = "done"]
              /\ result' = [result EXCEPT ![c] = "err"]
    /\ UNCHANGED <<LockFrame, client, session, op, attempt, delay, made,
                   sleeps, outcome, local>>

\* disconnect, lines 214-215: the client is cleared, the guard dropped
LockClearClient(c) ==
    /\ pc[c] = "clearing client"
    /\ client' = None
    /\ result' = [result EXCEPT ![c] = "ok"]
    /\ pc' = [pc EXCEPT ![c] = "done"]
    /\ UNCHANGED <<LockFrame, session, connected, op, attempt, delay, made,
                   sleeps, outcome, local>>

\* check_status, lines 219-225: without a session the mutex is released
\* and Err returned; with one its read lock is taken under the mutex
LockStatus(c) ==
    /\ pc[c] = "status: locked"
    /\ IF session = None
         THEN /\ pc' = [pc EXCEPT ![c] = "done"]
              /\ result' = [result EXCEPT ![c] = "err"]
         ELSE /\ CanLockRead(session[1])
              /\ pc' = [pc EXCEPT ![c] = "status: reading"]
              /\ UNCHANGED result
    /\ UNCHANGED <<LockFrame, client, session, connected, op, attempt, delay,
                   made, sleeps, outcome, local>>

\* check_status, lines 221-225: is_connected(); both guards are dropped
LockStatusRead(c) ==
    /\ pc[c] = "status: reading"
    /\ result' = [result EXCEPT ![c] =
                    IF StatusOk(session, connected) THEN "ok" ELSE "err"]
    /\ pc' = [pc EXCEPT ![c] = "done"]
    /\ UNCHANGED <<LockFrame, client, session, connected, op, attempt, delay,
                   made, sleeps, outcome, local>>

\* read_tags, lines 229-232: the Arc is cloned under the session mutex
LockClone(c) ==
    /\ pc[c] = "cloning session"
    /\ IF NotConnected(session)
         THEN /\ pc' = [pc EXCEPT ![c] = "done"]
              /\ result' = [result EXCEPT ![c] = "err"]
              /\ outcome' = [outcome EXCEPT ![c] = "not connected"]
              /\ UNCHANGED local
         ELSE /\ pc' = [pc EXCEPT ![c] = "cloned"]
              /\ local' = [local EXCEPT ![c] = session]
              /\ UNCHANGED <<result, outcome>>
    /\ UNCHANGED <<LockFrame, client, session, connected, op, attempt, delay,
                   made, sleeps>>

\* read_tags, line 233: session_arc.write()
LockWrite(c) ==
    /\ pc[c] = "cloned"
    /\ CanLockWrite(local[c][1])
    /\ pc' = [pc EXCEPT ![c] = "reading tags"]
    /\ UNCHANGED <<LockFrame, client, session, connected, op, attempt, delay,
                   made, sleeps, outcome, local, result>>

\* read_tags, lines 235-279 under the write lock: an address does not
\* parse, or session.read returns; the guard is dropped on return
LockReadTags(c, requests, io_error) ==
    /\ pc[c] = "reading tags"
    /\ LET how == IF ~AllParse(requests) THEN "invalid node id"
                  ELSE IF io_error \/ local[c][1] \notin connected
                    THEN "read error"
                  ELSE "ok"
       IN /\ outcome' = [outcome EXCEPT ![c] = how]
          /\ result' = [result EXCEPT ![c] = IF how = "ok" THEN "ok" ELSE "err"]
    /\ local' = [local EXCEPT ![c] = None]
    /\ pc' = [pc EXCEPT ![c] = "done"]
    /\ UNCHANGED <<LockFrame, client, session, connected, op, attempt, delay,
                   made, sleeps>>

LockMethods == {"connect", "disconnect", "check_status", "read_tags"}

\* the steps of caller c inside a call
LockProgress(c) ==
    \/ LockFirst(c)
    \/ LockConnectChecked(c)
    \/ LockAttemptOk(c)
    \/ \E how \in FailureKinds : ConnectAttemptFail(c, how)
    \/ ConnectBackoff(c)
    \/ LockAcquire(c)
    \/ LockStoreClient(c)
    \/ LockStoreSession(c)
    \/ LockTake(c)
    \/ LockClose(c)
    \/ \E joined \in BOOLEAN : LockClosed(c, joined)
    \/ LockClearClient(c)
    \/ LockStatus(c)
    \/ LockStatusRead(c)
    \/ LockClone(c)
    \/ LockWrite(c)
    \/ \E requests \in ReadRequests, io_error \in BOOLEAN :
          LockReadTags(c, requests, io_error)

LockNext ==
    \/ \E c \in Callers, method \in LockMethods : LockCall(c, method)
    \/ \E c \in Callers : LockProgress(c)
    \/ \E c \in Callers : Return(c)
    \/ RemoteClose

----------------------------------------------------------------------------
(* TagEngine, tags/engine.rs lines 21-39.  A DashMap operation locks the   *)
(* shard of its key: insert and get_mut take the shard's write lock, get   *)
(* takes its read lock; the guard returned by get / get_mut holds the lock *)
(* until it is dropped.                                                    *)

CanWriteAlways(l) == TRUE

\* the shard's write lock can be taken (insert line 22, get_mut line 32)
CanWrite(l) == l.writer = 0 /\ l.readers = {}

CanReadAlways(l) == TRUE

\* the shard's read lock can be taken (get, line 27)
CanRead(l) == l.writer = 0

InsertIfAbsent(tb, tag) ==
    IF tb[tag.path] = None THEN [tb EXCEPT ![tag.path] = Some(tag)] ELSE tb

InsertAlone(tb, tag) ==
    [p \in Paths |-> IF p = tag.path THEN Some(tag) ELSE None]

\* self.tags.insert(tag.path.clone(), tag) (line 22)
Insert(tb, tag) == [tb EXCEPT ![tag.path] = Some(tag)]

\* .and_then(|tag_ref| Some(tag_ref.value.clone())) (line 27)
ReadValue(tb, p) == IF tb[p] = None THEN None ELSE Some(tb[p][1].value)

LockOf(p) == lock[shard[p]]
WriteLocked(p, t) == [lock EXCEPT ![shard[p]].writer = t]
WriteUnlocked(p) == [lock EXCEPT ![shard[p]].writer = 0]

\* self.tags.get(tag_path).map(|tag_ref| tag_ref.clone()) (line 48)
get_tag_details(tb, p) == tb[p]

TagNotFoundTrue == TRUE

\* `None => false` (line 37): the result of update_tag_value for a path
\* that has no entry
TagNotFound == FALSE

AssignRestAndRate(tag, v) ==
    [tag EXCEPT !.value = [@ EXCEPT !.quality = v.quality,
                                    !.timestamp = v.timestamp],
                !.poll_rate_ms = 0]

\* `tag_ref.value = new_value` (line 34), the payload of the TagValue
AssignPayload(tag, v) == [tag EXCEPT !.value = [@ EXCEPT !.value = v.value]]

\* `tag_ref.value = new_value` (line 34), its quality and timestamp
AssignRest(tag, v) ==
    [tag EXCEPT !.value = [@ EXCEPT !.quality = v.quality,
                                    !.timestamp = v.timestamp]]

\* what insert hands back, cut down to the replaced Tag's driver_id
ReplacedDriver(tb, p) == IF tb[p] = None THEN None ELSE Some(tb[p][1].driver_id)

\* register_tag (lines 21-23): insert takes the write lock of the shard
RegisterLock(t, tag) ==
    /\ tpc[t] = "idle"
    /\ CanWrite(LockOf(tag.path))
    /\ lock' = WriteLocked(tag.path, t)
    /\ call' = [call EXCEPT ![t] =
                  [method |-> "register_tag", path |-> tag.path, arg |-> Some(tag)]]
    /\ tpc' = [tpc EXCEPT ![t] = "insert"]
    /\ UNCHANGED <<dvars, avars, mvars, tags, shard, ret, latest>>

\* register_tag (line 22): the entry is replaced, the old Tag handed back
\* (and dropped by register_tag), the lock released
RegisterStore(t) ==
    /\ tpc[t] = "insert"
    /\ LET tag == call[t].arg[1] IN
         /\ tags' = Insert(tags, tag)
         /\ ret' = [ret EXCEPT ![t] = ReplacedDriver(tags, tag.path)]
         /\ latest' = [latest EXCEPT ![tag.path] = Some(tag.value)]
         /\ lock' = WriteUnlocked(tag.path)
    /\ tpc' = [tpc EXCEPT ![t] = "done"]
    /\ UNCHANGED <<dvars, avars, mvars, shard, call>>

\* update_tag_value (lines 31-38): get_mut; `None => false`
UpdateLock(t, p, v) ==
    /\ tpc[t] = "idle"
    /\ CanWrite(LockOf(p))
    /\ call' = [call EXCEPT ![t] =
                  [method |-> "update_tag_value", path |-> p, arg |-> Some(v)]]
    /\ IF tags[p] = None
         THEN /\ ret' = [ret EXCEPT ![t] = Some(TagNotFound)]
              /\ tpc' = [tpc EXCEPT ![t] = "done"]
              /\ UNCHANGED lock
         ELSE /\ lock' = WriteLocked(p, t)
              /\ tpc' = [tpc EXCEPT ![t] = "assign_value"]
              /\ UNCHANGED ret
    /\ UNCHANGED <<dvars, avars, mvars, tags, shard, latest>>

\* update_tag_value (line 34): tag_ref.value = new_value, a store of a
\* three-field struct made under the write lock; first the payload
UpdateAssignPayload(t) ==
    /\ tpc[t] = "assign_value"
    /\ LET p == call[t].path
           v == call[t].arg[1]
       IN tags' = [tags EXCEPT ![p] = Some(AssignPayload(@[1], v))]
    /\ tpc' = [tpc EXCEPT ![t] = "assign_rest"]
    /\ UNCHANGED <<dvars, avars, mvars, shard, lock, call, ret, latest>>

\* update_tag_value (lines 34-35): quality and timestamp, the RefMut is
\* dropped, `true`
UpdateAssignRest(t) ==
    /\ tpc[t] = "assign_rest"
    /\ LET p == call[t].path
           v == call[t].arg[1]
       IN /\ tags' = [tags EXCEPT ![p] = Some(AssignRest(@[1], v))]
          /\ latest' = [latest EXCEPT ![p] = Some(v)]
          /\ lock' = WriteUnlocked(p)
    /\ ret' = [ret EXCEPT ![t] = Some(TRUE)]
    /\ tpc' = [tpc EXCEPT ![t] = "done"]
    /\ UNCHANGED <<dvars, avars, mvars, shard, call>>

\* read_tag (lines 26-28): get takes the read lock; None when absent
ReadLock(t, p) ==
    /\ tpc[t] = "idle"
    /\ CanRead(LockOf(p))
    /\ call' = [call EXCEPT ![t] =
                  [method |-> "read_tag", path |-> p, arg |-> None]]
    /\ IF tags[p] = None
         THEN /\ ret' = [ret EXCEPT ![t] = None]
              /\ tpc' = [tpc EXCEPT ![t] = "done"]
              /\ UNCHANGED lock
         ELSE /\ lock' = [lock EXCEPT ![shard[p]].readers = @ \cup {t}]
              /\ tpc' = [tpc EXCEPT ![t] = "clone"]
              /\ UNCHANGED ret
    /\ UNCHANGED <<dvars, avars, mvars, tags, shard, latest>>

\* read_tag (line 27): the value is cloned and the Ref dropped
ReadClone(t) ==
    /\ tpc[t] = "clone"
    /\ ret' = [ret EXCEPT ![t] = ReadValue(tags, call[t].path)]
    /\ lock' = [lock EXCEPT ![shard[call[t].path]].readers = @ \ {t}]
    /\ tpc' = [tpc EXCEPT ![t] = "done"]
    /\ UNCHANGED <<dvars, avars, mvars, tags, shard, call, latest>>

\* the calling thread receives the result
EngineReturn(t) ==
    /\ tpc[t] = "done"
    /\ tpc' = [tpc EXCEPT ![t] = "idle"]
    /\ call' = [call EXCEPT ![t] = NoCall]
    /\ ret' = [ret EXCEPT ![t] = None]
    /\ UNCHANGED <<dvars, avars, mvars, tags, shard, lock, latest>>

EngineNext ==
    \/ \E t \in Threads, tag \in NewTags : RegisterLock(t, tag)
    \/ \E t \in Threads : RegisterStore(t)
    \/ \E t \in Threads, p \in Paths, v \in NewValues : UpdateLock(t, p, v)
    \/ \E t \in Threads : UpdateAssignPayload(t)
    \/ \E t \in Threads : UpdateAssignRest(t)
    \/ \E t \in Threads, p \in Paths : ReadLock(t, p)
    \/ \E t \in Threads : ReadClone(t)
    \/ \E t \in Threads : EngineReturn(t)

----------------------------------------------------------------------------
(* main, main.rs lines 25-252 *)

\* the orders in which a hash map may iterate the keys S
Perms(S) ==
    {f \in [1..Cardinality(S) -> S] : \A i, j \in DOMAIN f : f[i] = f[j] => i = j}

\* no request in progress
NoRequest == [endpoint |-> "none"]

\* no handler running, no tag registered by anyone but main
ApiOff ==
    /\ late = {}
    /\ kind = [d \in DriverIds |-> "opcua"]
    /\ apc = [r \in Clients |-> "idle"]
    /\ areq = [r \in Clients |-> NoRequest]
    /\ aresp = [r \in Clients |-> None]

\* no configuration loaded, nothing started
NoSettings == [devices |-> <<>>, tags |-> <<>>]

MainOff ==
    /\ settings = NoSettings
    /\ settings_arc = NoSettings
    /\ disk = Some(NoSettings)
    /\ ApiOff
    /\ mpc = "none"
    /\ idx = 0
    /\ driver_instances = {}
    /\ link = [d \in DriverIds |-> "none"]
    /\ server_up = [d \in DriverIds |-> TRUE]
    /\ iter_order = <<"Device/Tag1", "Device/Tag2">>
    /\ spc = "off"
    /\ poll_groups = <<>>
    /\ group_order = <<>>
    /\ last_poll_times = <<>>
    /\ time = 0
    /\ now = 0
    /\ deadline = 0
    /\ cursor = 0
    /\ history = <<>>
    /\ lost_at = [d \in DriverIds |-> None]

\* the ids in settings.devices
Devices(st) == {st.devices[i] : i \in DOMAIN st.devices}

\* main after Settings::load (lines 31-57): the configuration is loaded, the
\* tag engine is empty, no driver is constructed; a server that is not
\* configured plays no part
MainLoaded ==
    /\ settings_arc = settings
    /\ disk = Some(settings)
    /\ ApiOff
    /\ mpc = "drivers"
    /\ idx = 1
    /\ driver_instances = {}
    /\ link = [d \in DriverIds |-> "none"]
    /\ server_up \in [DriverIds -> BOOLEAN]
    /\ \A d \in DriverIds \ Devices(settings) : server_up[d]
    /\ iter_order \in Perms(Paths)
    /\ spc = "off"
    /\ poll_groups = <<>>
    /\ group_order = <<>>
    /\ last_poll_times = <<>>
    /\ time = 0
    /\ now = 0
    /\ deadline = 0
    /\ cursor = 0
    /\ history = <<>>
    /\ lost_at = [d \in DriverIds |-> None]

MainInit == settings \in SettingsChoices /\ MainLoaded

\* ValueVariant::Null
Null == <<"Null">>

\* TagValue::bad(reason) (structures.rs lines 43-46) at instant t
bad(reason, t) == TagValue(Null, reason, t)

\* the Tag that main registers for a TagConfig (lines 93-108)
initial_tag(tc, t) ==
    Tag(tc.path, bad("Bad", t), tc.driver_id, tc.address, tc.poll_rate_ms,
        "Default description")

\* lines 59-79: OpcUaDriver::new and connect() returning Ok for the next
\* device; the driver enters the registry
MainDriverOk ==
    /\ mpc = "drivers"
    /\ LET d == settings.devices[idx] IN
         /\ server_up[d]
         /\ link' = [link EXCEPT ![d] = "live"]
         /\ driver_instances' = driver_instances \cup {d}
    /\ IF idx = Len(settings.devices)
         THEN mpc' = "tags" /\ idx' = 1
         ELSE mpc' = mpc /\ idx' = idx + 1
    /\ UNCHANGED <<dvars, avars, evars, settings, server_up, iter_order, spc,
                   poll_groups, group_order, last_poll_times, time, now,
                   deadline, cursor, history, lost_at>>

\* lines 73-75: connect() returning Err (retries exhausted against a server
\* that is down, or every attempt timing out); `?` returns the error from
\* main
MainDriverErr ==
    /\ mpc = "drivers"
    /\ mpc' = "exited"
    /\ UNCHANGED <<dvars, avars, evars, settings, idx, driver_instances, link,
                   server_up, iter_order, spc, poll_groups, group_order,
                   last_poll_times, time, now, deadline, cursor, history,
                   lost_at>>

contains_key_skipped(reg, d) == TRUE

\* `drivers_arc.contains_key(&tag_config.driver_id)` (line 87)
contains_key(reg, d) == d \in reg

\* lines 85-121: the next TagConfig is registered if its driver is in the
\* registry and skipped otherwise; after the last one the polling task is
\* spawned and the API server started
MainRegisterTag ==
    /\ mpc = "tags"
    /\ LET tc == settings.tags[idx] IN
         IF contains_key(driver_instances, tc.driver_id)
           THEN tags' = Insert(tags, initial_tag(tc, time))
           ELSE tags' = tags
    /\ IF idx = Len(settings.tags)
         THEN mpc' = "serving" /\ idx' = 0 /\ spc' = "start"
         ELSE mpc' = mpc /\ idx' = idx + 1 /\ spc' = spc
    /\ UNCHANGED <<dvars, avars, shard, lock, tpc, call, ret, latest, settings,
                   driver_instances, link, server_up, iter_order, poll_groups,
                   group_order, last_poll_times, time, now, deadline, cursor,
                   history, lost_at>>

----------------------------------------------------------------------------
(* the polling task, main.rs lines 121-217, over TagEngine and read_tags *)

\* TagEngine::get_all_tag_paths (engine.rs lines 42-44): the keys in the
\* map's iteration order
IsRegistered(p) == tags[p] # None
get_all_tag_paths == SelectSeq(iter_order, IsRegistered)

find_path_by_driver(tb, driver_id, address) ==
    LET Matches(p) == tb[p] # None /\ tb[p][1].driver_id = driver_id
        found == SelectSeq(iter_order, Matches)
    IN IF found = <<>> THEN None ELSE Some(Head(found))

\* TagEngine::find_path_by_address (engine.rs lines 52-56): the first entry
\* in iteration order with that driver id and address
find_path_by_address(tb, driver_id, address) ==
    LET Matches(p) == /\ tb[p] # None
                      /\ tb[p][1].driver_id = driver_id
                      /\ tb[p][1].driver_address = address
        found == SelectSeq(iter_order, Matches)
    IN IF found = <<>> THEN None ELSE Some(Head(found))

\* TagEngine::update_tag_value (engine.rs lines 31-39) as one step
update_tag_value(tb, p, v) ==
    IF tb[p] = None THEN tb
    ELSE [tb EXCEPT ![p] = Some(AssignRest(AssignPayload(@[1], v), v))]

GroupKeyByDriver(tag) == <<tag.driver_id, 0>>

\* the key of the poll group of a tag (main.rs line 133)
GroupKey(tag) == <<tag.driver_id, tag.poll_rate_ms>>

\* lines 124-137: the registered paths grouped by (driver_id, poll_rate_ms)
BuildGroups ==
    LET keys == {GroupKey(tags[p][1]) : p \in {q \in Paths : tags[q] # None}}
    IN [g \in keys |->
          LET InGroup(p) == GroupKey(tags[p][1]) = g
          IN SelectSeq(get_all_tag_paths, InGroup)]

\* lines 121-143: the groups are built once, last_poll_times is empty, the
\* interval is created (its first tick completes at once)
SchedStart ==
    /\ spc = "start"
    /\ poll_groups' = BuildGroups
    /\ group_order' \in Perms(DOMAIN BuildGroups)
    /\ last_poll_times' = [g \in DOMAIN BuildGroups |-> None]
    /\ history' = [g \in DOMAIN BuildGroups |-> <<>>]
    /\ deadline' = time
    /\ spc' = "wait"
    /\ UNCHANGED <<dvars, avars, evars, settings, mpc, idx, driver_instances, link,
                   server_up, iter_order, time, now, cursor, lost_at>>

\* lines 146-147: tick_interval.tick().await returns once the deadline is
\* reached, and the next deadline is one period after this one
SchedTick ==
    /\ spc = "wait"
    /\ time >= deadline
    /\ now' = time
    /\ deadline' = deadline + base_interval
    /\ cursor' = 1
    /\ spc' = "scan"
    /\ UNCHANGED <<dvars, avars, evars, settings, mpc, idx, driver_instances, link,
                   server_up, iter_order, poll_groups, group_order,
                   last_poll_times, time, history, lost_at>>

\* Instant::duration_since: zero when `earlier` is later than `self`
duration_since(self, earlier) == IF self >= earlier THEN self - earlier ELSE 0

\* `.or_insert(Instant::now() - Duration::from_secs(60))` (lines 151-153)
or_insert(entry, t) == IF entry = None THEN t - LongAgo ELSE entry[1]

IsDueAlways(n, last_poll, poll_duration) == TRUE

\* `now.duration_since(*last_poll) >= poll_duration` (line 155)
IsDue(n, last_poll, poll_duration) ==
    duration_since(n, last_poll) >= poll_duration

NoRequests(tb, paths) == <<>>

\* lines 165-174: the addresses of the group's paths that have an entry
Requests(tb, paths) ==
    LET Has(p) == get_tag_details(tb, p) # None
        found == SelectSeq(paths, Has)
    IN [i \in DOMAIN found |-> tb[found[i]][1].driver_address]

\* one poll of a group as history keeps it
\* (io: the read failed in session.read itself, on a session that is held)
Poll(tick, at, res) ==
    [tick |-> tick, at |-> at, result |-> res, io |-> FALSE]
Latest2(h) == IF Len(h) <= 2 THEN h ELSE Tail(h)

\* lines 149-176 and 208-214: the next group of the tick; if it is due and
\* has requests the read is issued, if it is due without a driver or without
\* requests only last_poll is set, if it is not due it is passed over
SchedGroup ==
    /\ spc = "scan"
    /\ cursor <= Len(group_order)
    /\ LET g == group_order[cursor]
           last_poll == or_insert(last_poll_times[g], time)
       IN IF IsDue(now, last_poll, g[2])
            THEN IF /\ contains_key(driver_instances, g[1])
                    /\ Requests(tags, poll_groups[g]) # <<>>
                   THEN /\ spc' = "read"
                        /\ history' = [history EXCEPT ![g] =
                              Latest2(Append(@, Poll(now, time, "pending")))]
                        /\ last_poll_times' =
                              [last_poll_times EXCEPT ![g] = Some(last_poll)]
                        /\ UNCHANGED cursor
                   ELSE /\ last_poll_times' =
                              [last_poll_times EXCEPT ![g] = Some(now)]
                        /\ cursor' = cursor + 1
                        /\ UNCHANGED <<spc, history>>
            ELSE /\ last_poll_times' =
                       [last_poll_times EXCEPT ![g] = Some(last_poll)]
                 /\ cursor' = cursor + 1
                 /\ UNCHANGED <<spc, history>>
    /\ UNCHANGED <<dvars, avars, evars, settings, mpc, idx, driver_instances, link,
                   server_up, iter_order, poll_groups, group_order, time, now,
                   deadline, lost_at>>

\* DataValue { value, status } as the server returns it for one node
DataValue(v, st) == [value |-> v, status |-> st]
\* what a server answers for a node: the node's value, with a good or with
\* a bad status code
NodeStates == {"Good", "Bad"}
Served(driver_id, address, state) ==
    DataValue(Some(<<driver_id, address>>), Some(state))

\* data_value_to_tag_value (opcua.rs lines 36-69) at instant t
data_value_to_tag_value(dv, t) ==
    LET quality == IF dv.status # None /\ dv.status[1] = "Good"
                     THEN "Good" ELSE "Bad"
        value_variant == IF dv.value # None THEN dv.value[1] ELSE Null
    IN TagValue(value_variant, quality, t)

SessionAlwaysLive(l) == TRUE

\* the session is held and its reads go through (opcua.rs lines 229-232,
\* 246-248)
SessionLive(l) == l = "live"

\* what session.read comes back with (opcua.rs lines 246-248): an error of
\* the service call, or the state of every node asked for
Reply(error, states) == [error |-> error, states |-> states]
Replies ==
    {Reply(FALSE, states) : states \in [Addresses -> NodeStates]}
        \cup {Reply(TRUE, [a \in Addresses |-> "Bad"])}

\* OpcUaDriver::read_tags (opcua.rs lines 228-279) at instant t: None for
\* Err, Some(map from address to TagValue) for Ok
read_tags(driver_id, requests, reply, t) ==
    IF ~SessionLive(link[driver_id]) THEN None
    ELSE IF ~AllParse(requests) THEN None
    ELSE IF reply.error THEN None
    ELSE Some([a \in {requests[i] : i \in DOMAIN requests} |->
                 data_value_to_tag_value(
                     Served(driver_id, a, reply.states[a]), t)])

ApplyNothing(tb, driver_id, results) == tb

\* main.rs lines 184-193: every (address, value) of the results is mapped to
\* a path by find_path_by_address and stored with update_tag_value
ApplyResults(tb, driver_id, results) ==
    [p \in Paths |->
       LET hits == {a \in DOMAIN results :
                      find_path_by_address(tb, driver_id, a) = Some(p)}
       IN IF hits = {} THEN tb[p]
          ELSE update_tag_value(tb, p, results[CHOOSE a \in hits : TRUE])[p]]

MarkNothing(tb, paths, t) == tb

\* main.rs lines 201-204: every path of the group is set to
\* TagValue::bad(Quality::Bad)
MarkBad(tb, paths, t) ==
    [p \in Paths |->
       IF \E i \in DOMAIN paths : paths[i] = p
         THEN update_tag_value(tb, p, bad("Bad", t))[p]
         ELSE tb[p]]

\* the result of the poll in progress, recorded in history
Finished(h, res) == [h EXCEPT ![Len(h)].result = res]
Failed(h, io) == [h EXCEPT ![Len(h)].result = "err", ![Len(h)].io = io]

\* lines 177-194 and 213: read_tags returns Ok; the results are stored and
\* last_poll is set to the tick's now
SchedReadOk(reply) ==
    /\ spc = "read"
    /\ LET g == group_order[cursor]
           results == read_tags(g[1], Requests(tags, poll_groups[g]), reply, time)
       IN /\ results # None
          /\ tags' = ApplyResults(tags, g[1], results[1])
          /\ last_poll_times' = [last_poll_times EXCEPT ![g] = Some(now)]
          /\ history' = [history EXCEPT ![g] = Finished(@, "ok")]
    /\ cursor' = cursor + 1
    /\ spc' = "scan"
    /\ UNCHANGED <<dvars, avars, shard, lock, tpc, call, ret, latest, settings, mpc,
                   idx, driver_instances, link, server_up, iter_order,
                   poll_groups, group_order, time, now, deadline, lost_at>>

\* lines 177, 195-205 and 213: read_tags returns Err; the tags of the group
\* are marked and last_poll is set to the tick's now
SchedReadErr(reply) ==
    /\ spc = "read"
    /\ LET g == group_order[cursor]
           requests == Requests(tags, poll_groups[g])
           results == read_tags(g[1], requests, reply, time)
           io == SessionLive(link[g[1]]) /\ AllParse(requests)
       IN /\ results = None
          /\ tags' = MarkBad(tags, poll_groups[g], time)
          /\ last_poll_times' = [last_poll_times EXCEPT ![g] = Some(now)]
          /\ history' = [history EXCEPT ![g] = Failed(@, io)]
    /\ cursor' = cursor + 1
    /\ spc' = "scan"
    /\ UNCHANGED <<dvars, avars, shard, lock, tpc, call, ret, latest, settings, mpc,
                   idx, driver_instances, link, server_up, iter_order,
                   poll_groups, group_order, time, now, deadline, lost_at>>

\* lines 149, 215-216: all groups were considered; back to the tick's await
SchedTickEnd ==
    /\ spc = "scan"
    /\ cursor > Len(group_order)
    /\ spc' = "wait"
    /\ UNCHANGED <<dvars, avars, evars, settings, mpc, idx, driver_instances, link,
                   server_up, iter_order, poll_groups, group_order,
                   last_poll_times, time, now, deadline, cursor, history,
                   lost_at>>

\* the clock advances by one unit while the polling task is suspended, in
\* the tick's await (line 146) or in read_tags (line 177); instants are
\* counted from the creation of the interval
Elapse ==
    /\ spc \in {"wait", "read"}
    /\ time < MaxTime
    /\ time < deadline + MaxLag
    /\ time' = time + 1
    /\ UNCHANGED <<dvars, avars, evars, settings, mpc, idx, driver_instances, link,
                   server_up, iter_order, spc, poll_groups, group_order,
                   last_poll_times, now, deadline, cursor, history, lost_at>>

\* instants lying Horizon or more before the end of the window are kept at
\* its start: the due check of a group whose poll rate is at most
\* Horizon - MaxLag does not tell them apart
Horizon == MaxTime

\* an instant after the origin has moved one unit forward
Rebased(x) == IF x - 1 < MaxTime - Horizon THEN MaxTime - Horizon ELSE x - 1
RebasedOpt(o) == IF o = None THEN None ELSE Some(Rebased(o[1]))

\* the clock advances by one unit beyond MaxTime, at the same places as in
\* Elapse: the origin of the instants moves forward with it, so that the
\* clock reads MaxTime again and every other instant one unit less
Slide ==
    /\ spc \in {"wait", "read"}
    /\ time = MaxTime
    /\ time < deadline + MaxLag
    /\ now' = Rebased(now)
    /\ deadline' = Rebased(deadline)
    /\ last_poll_times' =
          [g \in DOMAIN last_poll_times |-> RebasedOpt(last_poll_times[g])]
    /\ history' =
          [g \in DOMAIN history |->
             [i \in DOMAIN history[g] |->
                [history[g][i] EXCEPT !.tick = Rebased(@), !.at = Rebased(@)]]]
    /\ lost_at' = [d \in DriverIds |-> RebasedOpt(lost_at[d])]
    /\ tags' =
          [p \in Paths |->
             IF tags[p] = None THEN None
             ELSE Some([tags[p][1] EXCEPT !.value.timestamp = Rebased(@)])]
    /\ UNCHANGED <<dvars, avars, shard, lock, tpc, call, ret, latest, settings, mpc,
                   idx, driver_instances, link, server_up, iter_order, spc,
                   poll_groups, group_order, time, cursor>>

\* the remote server of a connected driver is killed: the session is lost
RemoteKill(d) ==
    /\ link[d] = "live"
    /\ link' = [link EXCEPT ![d] = "lost"]
    /\ server_up' = [server_up EXCEPT ![d] = FALSE]
    /\ lost_at' = [lost_at EXCEPT ![d] = Some(time)]
    /\ UNCHANGED <<dvars, avars, evars, settings, mpc, idx, driver_instances,
                   iter_order, spc, poll_groups, group_order, last_poll_times,
                   time, now, deadline, cursor, history>>

\* the remote server of a lost session is started again
ServerRestart(d) ==
    /\ link[d] = "lost"
    /\ ~server_up[d]
    /\ server_up' = [server_up EXCEPT ![d] = TRUE]
    /\ UNCHANGED <<dvars, avars, evars, settings, mpc, idx, driver_instances, link,
                   iter_order, spc, poll_groups, group_order, last_poll_times,
                   time, now, deadline, cursor, history, lost_at>>

\* the tags that a caller of register_tag other than main registers: of a
\* connected driver, with the address of a configured tag or another one
LateTags ==
    {Tag(p, TagValue(<<"Late">>, "Good", 0), "drv1", a, 1, "late") :
        p \in Paths, a \in NodeIds}

\* TagEngine::register_tag (engine.rs lines 21-23) called for a path that is
\* not in the table, after the polling task has built its groups
LateRegister(tag) ==
    /\ mpc = "serving"
    /\ spc \notin {"off", "start"}
    /\ tags[tag.path] = None
    /\ tags' = Insert(tags, tag)
    /\ late' = late \cup {tag.path}
    /\ UNCHANGED <<dvars, mvars, shard, lock, tpc, call, ret, latest,
                   settings_arc, disk, kind, apc, areq, aresp>>

SchedStep ==
    \/ SchedStart
    \/ SchedTick
    \/ SchedGroup
    \/ \E reply \in Replies : SchedReadOk(reply)
    \/ \E reply \in Replies : SchedReadErr(reply)
    \/ SchedTickEnd

MainStep ==
    \/ MainDriverOk
    \/ MainDriverErr
    \/ MainRegisterTag

MainNext ==
    \/ MainStep
    \/ SchedStep
    \/ Elapse
    \/ \E d \in DriverIds : RemoteKill(d)
    \/ \E d \in DriverIds : ServerRestart(d)

----------------------------------------------------------------------------
(* The HTTP handlers: get_config and update_config (main.rs lines 264-282), *)
(* browse_opcua_tags and discover_opcua_tags (api/rest.rs lines 59-195).    *)

\* a response: the status code and the JSON body
Response(status, body) == [status |-> status, body |-> body]

\* how Settings::save ends (settings.rs lines 42-46): the file is written;
\* nothing is written (serialising fails, or the file cannot be created);
\* the file is created and the write fails
SaveOutcomes == {"ok", "denied", "torn"}

\* the io::Result of save: None for Ok(()), Some(error) for Err
save(cfg, how) ==
    IF how = "ok" THEN None
    ELSE IF how = "denied" THEN Some("permission denied")
    ELSE Some("write failed")

NotWritten(old, cfg, how) == old

\* config.toml after save: None when the file does not hold a whole Settings
Written(old, cfg, how) ==
    IF how = "ok" THEN Some(cfg)
    ELSE IF how = "denied" THEN old
    ELSE None

SaveFailedNever(res) == FALSE

\* `if let Err(e) = new_cfg.save(..)` (main.rs line 273)
SaveFailed(res) == res # None

\* the Settings that PUT /api/config requests carry
PutBodies ==
    {NoSettings} \cup {st \in SettingsChoices : Len(st.devices) = 2}

\* update_config (main.rs lines 269-278): the new Settings are saved; if
\* that fails the handler returns 500 with the error
UpdateConfigSave(r, new_cfg, how) ==
    /\ apc[r] = "idle"
    /\ areq' = [areq EXCEPT ![r] =
                  [endpoint |-> "put_config", arg |-> new_cfg,
                   outcome |-> Some(how)]]
    /\ disk' = Written(disk, new_cfg, how)
    /\ LET res == save(new_cfg, how) IN
         IF SaveFailed(res)
           THEN /\ aresp' = [aresp EXCEPT ![r] =
                               Some(Response(500, [error |-> res[1]]))]
                /\ apc' = [apc EXCEPT ![r] = "done"]
           ELSE /\ aresp' = aresp
                /\ apc' = [apc EXCEPT ![r] = "stored"]
    /\ UNCHANGED <<dvars, evars, mvars, late, settings_arc, kind>>

\* update_config (main.rs lines 279-281): the write lock is taken, the
\* in-memory Settings are replaced, 200
UpdateConfigStore(r) ==
    /\ apc[r] = "stored"
    /\ settings_arc' = areq[r].arg
    /\ aresp' = [aresp EXCEPT ![r] = Some(Response(200, [status |-> "ok"]))]
    /\ apc' = [apc EXCEPT ![r] = "done"]
    /\ UNCHANGED <<dvars, evars, mvars, late, disk, kind, areq>>

\* get_config (main.rs lines 264-267): a clone of the in-memory Settings
GetConfig(r) ==
    /\ apc[r] = "idle"
    /\ areq' = [areq EXCEPT ![r] =
                  [endpoint |-> "get_config", arg |-> NoSettings,
                   outcome |-> None]]
    /\ aresp' = [aresp EXCEPT ![r] = Some(Response(200, settings_arc))]
    /\ apc' = [apc EXCEPT ![r] = "done"]
    /\ UNCHANGED <<dvars, evars, mvars, late, settings_arc, disk, kind>>

\* the endpoints that delegate to one driver
DriverEndpoints == {"browse", "discover_tags"}

\* BrowseResponse { node_id, children, error } and TagDiscoveryResponse
\* { driver_id, tags, error } (rest.rs lines 38-43, 71-75)
BrowseResponse(items, error) == [items |-> items, error |-> error]

\* the message of the 404 (rest.rs lines 74, 147)
NotFoundMessage(endpoint, driver_id) ==
    IF endpoint = "browse" THEN "Driver '" \o driver_id \o "' not found"
    ELSE "Driver not found"

\* the message of the 400 (rest.rs lines 117, 190)
NotOpcUaMessage(endpoint, driver_id) ==
    IF endpoint = "browse"
      THEN "Driver '" \o driver_id \o "' is not an OPC UA driver"
      ELSE "Driver is not an OPC UA driver"

\* `state.drivers.get(&driver_id)` (rest.rs lines 65, 138)
get(reg, driver_id) == driver_id \in reg

downcast_any(k) == TRUE

\* `driver.as_any().downcast_ref::<OpcUaDriver>()` is Some (lines 81, 154)
downcast_ref(k) == k = "opcua"

\* what browse_node / discover_tags hand back to the handler (rest.rs lines
\* 85-108, 158-181): Ok(items), or Err(e) with the text of e
DriverResult(err, items) == [err |-> err, items |-> items]
DriverResults ==
    {DriverResult(None, <<>>),
     DriverResult(None, <<"Temperature", "Pressure">>),
     DriverResult(Some("not connected"), <<>>),
     DriverResult(Some("browse failed"), <<>>)}

\* browse_opcua_tags (rest.rs lines 131-158) and discover_opcua_tags (lines
\* 59-85) up to the call of the driver: 404 for an id that is not in the
\* registry, 400 for a driver that is not an OpcUaDriver
BrowseLookup(r, endpoint, driver_id) ==
    /\ apc[r] = "idle"
    /\ areq' = [areq EXCEPT ![r] =
                  [endpoint |-> endpoint, arg |-> driver_id, outcome |-> None]]
    /\ IF ~get(driver_instances, driver_id)
         THEN /\ aresp' = [aresp EXCEPT ![r] =
                   Some(Response(404,
                      BrowseResponse(<<>>,
                          Some(NotFoundMessage(endpoint, driver_id)))))]
              /\ apc' = [apc EXCEPT ![r] = "done"]
         ELSE IF ~downcast_ref(kind[driver_id])
           THEN /\ aresp' = [aresp EXCEPT ![r] =
                     Some(Response(400,
                        BrowseResponse(<<>>,
                            Some(NotOpcUaMessage(endpoint, driver_id)))))]
                /\ apc' = [apc EXCEPT ![r] = "done"]
           ELSE /\ aresp' = aresp
                /\ apc' = [apc EXCEPT ![r] = "calling"]
    /\ UNCHANGED <<dvars, evars, mvars, late, settings_arc, disk, kind>>

\* rest.rs lines 85-108 and 158-181: the driver call returns; 200 with the
\* items for Ok, 500 with the error's text and no items for Err
BrowseReturn(r, answer) ==
    /\ apc[r] = "calling"
    /\ areq' = [areq EXCEPT ![r].outcome = Some(answer)]
    /\ aresp' = [aresp EXCEPT ![r] =
          IF answer.err = None
            THEN Some(Response(200, BrowseResponse(answer.items, None)))
            ELSE Some(Response(500, BrowseResponse(<<>>, answer.err)))]
    /\ apc' = [apc EXCEPT ![r] = "done"]
    /\ UNCHANGED <<dvars, evars, mvars, late, settings_arc, disk, kind>>

\* the client has its response
ApiRespond(r) ==
    /\ apc[r] = "done"
    /\ apc' = [apc EXCEPT ![r] = "idle"]
    /\ areq' = [areq EXCEPT ![r] = NoRequest]
    /\ aresp' = [aresp EXCEPT ![r] = None]
    /\ UNCHANGED <<dvars, evars, mvars, late, settings_arc, disk, kind>>

\* SharedAppState.driver_count (main.rs line 223): drivers_arc.len(), of a
\* registry that is not changed after the state is built
driver_count == Cardinality(driver_instances)

\* the handlers of /api/config for one client, once main has started the
\* API server (main.rs lines 219-250)
ConfigStep(r) ==
    /\ mpc = "serving"
    /\ \/ \E new_cfg \in PutBodies, how \in SaveOutcomes :
             UpdateConfigSave(r, new_cfg, how)
       \/ UpdateConfigStore(r)
       \/ GetConfig(r)
       \/ ApiRespond(r)

ApiNext ==
    \/ \E r \in Clients, new_cfg \in PutBodies, how \in SaveOutcomes :
          UpdateConfigSave(r, new_cfg, how)
    \/ \E r \in Clients : UpdateConfigStore(r)
    \/ \E r \in Clients : GetConfig(r)
    \/ \E r \in Clients, endpoint \in DriverEndpoints, d \in RequestIds :
          BrowseLookup(r, endpoint, d)
    \/ \E r \in Clients, answer \in DriverResults : BrowseReturn(r, answer)
    \/ \E r \in Clients : ApiRespond(r)

----------------------------------------------------------------------------
(* Specifications *)

\* a configuration with one retry after a delay
RetryConfig ==
    [connect_retry_attempts |-> Some(1),
     connect_retry_delay_ms |-> Some(1),
     connect_retry_backoff  |-> None,
     connect_timeout_ms     |-> None]

\* the driver and its callers, over an engine that is not called
Init == DriverInit /\ EngineNew /\ shard = [p \in Paths |-> 1] /\ MainOff
Next == DriverNext
Spec == Init /\ [][Next]_vars

\* the engine and its threads, over a driver that is not called; the hash
\* of a key may send it to any shard
DriverNew ==
    /\ DriverInit
    /\ tasks = Callers

ShardMaps ==
    {[p \in Paths |-> 1], [p \in Paths |-> IF p = "Device/Tag1" THEN 1 ELSE 2]}

EngineInit == DriverNew /\ EngineNew /\ shard \in ShardMaps /\ MainOff
EngineSpec == EngineInit /\ [][EngineNext]_vars

\* every call in progress eventually takes its next step: an attempt either
\* completes or reaches its deadline (tokio::time::timeout, line 151), and
\* the mutexes are only held for single statements
ConnectProgress(c) ==
    \/ ConnectAttemptOk(c)
    \/ \E how \in FailureKinds : ConnectAttemptFail(c, how)
    \/ ConnectBackoff(c)
    \/ ConnectStoreSession(c)

FairSpec == Spec /\ \A c \in Callers : WF_vars(ConnectProgress(c))

\* the tasks sharing one driver, step by step through its locks.  A call
\* in progress takes its next step: the library calls return, and a lock
\* that is released again and again is acquired by a task waiting for it
LockInit ==
    /\ tasks = Callers
    /\ config \in {DefaultConfig, RetryConfig}
    /\ DriverIdle
    /\ EngineNew
    /\ shard = [p \in Paths |-> 1]
    /\ MainOff
LockSpec == LockInit /\ [][LockNext]_vars
LockFairSpec == LockSpec /\ \A c \in Callers : SF_vars(LockProgress(c))

\* the process: main and its polling task over the drivers it constructed
\* and the tag engine, which nothing else calls
MainSpecInit ==
    /\ DriverNew
    /\ EngineNew
    /\ shard = [p \in Paths |-> 1]
    /\ MainInit
MainSpec == MainSpecInit /\ [][MainNext]_vars

\* the process with a caller of register_tag besides main, for the
\* configurations that leave a path of the table free
FreePathSettings ==
    {st \in SettingsChoices :
        \E i \in DOMAIN st.tags : st.tags[i].driver_id \notin Devices(st)}

LateInit == MainSpecInit /\ settings \in FreePathSettings
LateNext == MainNext \/ \E tag \in LateTags : LateRegister(tag)
LateSpec == LateInit /\ [][LateNext]_vars

\* the handlers over a SharedAppState as a caller of create_api_routes
\* builds it (main.rs lines 221-227, tests/api_integration.rs lines 31-45):
\* any registry, any Settings; no polling task
ApiInit ==
    /\ DriverNew
    /\ EngineNew
    /\ shard = [p \in Paths |-> 1]
    /\ settings = NoSettings
    /\ settings_arc \in PutBodies
    /\ disk = Some(settings_arc)
    /\ driver_instances \in SUBSET DriverIds
    /\ kind \in [DriverIds -> DriverKinds]
    /\ \A d \in DriverIds \ driver_instances : kind[d] = "opcua"
    /\ late = {}
    /\ apc = [r \in Clients |-> "idle"]
    /\ areq = [r \in Clients |-> NoRequest]
    /\ aresp = [r \in Clients |-> None]
    /\ mpc = "none"
    /\ idx = 0
    /\ link = [d \in DriverIds |-> IF d \in driver_instances THEN "live" ELSE "none"]
    /\ server_up = [d \in DriverIds |-> TRUE]
    /\ iter_order = <<"Device/Tag1", "Device/Tag2">>
    /\ spc = "off"
    /\ poll_groups = <<>>
    /\ group_order = <<>>
    /\ last_poll_times = <<>>
    /\ time = 0
    /\ now = 0
    /\ deadline = 0
    /\ cursor = 0
    /\ history = <<>>
    /\ lost_at = [d \in DriverIds |-> None]
ApiSpec == ApiInit /\ [][ApiNext]_vars

\* the process over configurations of short poll rates: two drivers with a
\* tag each, and one driver with two tags of different addresses
FastSettings ==
    {[devices |-> <<"drv1", "drv2">>,
      tags |-> <<TagConfig("Device/Tag1", "drv1", "ns=2;s=Temperature", 1),
                 TagConfig("Device/Tag2", "drv2", "ns=2;s=Temperature", 2)>>],
     [devices |-> <<"drv1">>,
      tags |-> <<TagConfig("Device/Tag1", "drv1", "ns=2;s=Temperature", 1),
                 TagConfig("Device/Tag2", "drv1", "ns=2;s=Pressure", 1)>>]}

\* main and the polling task over servers that stay up
FastInit ==
    /\ DriverNew
    /\ EngineNew
    /\ shard = [p \in Paths |-> 1]
    /\ settings \in FastSettings
    /\ MainLoaded
    /\ \A d \in DriverIds : server_up[d]
FastNext ==
    \/ MainStep
    \/ SchedStep
    \/ Elapse
FastSpec == FastInit /\ [][FastNext]_vars

\* the process with a client of /api/config: main, its polling task over
\* servers that stay up, and the handlers of one client
ServeInit == MainSpecInit /\ \A d \in DriverIds : server_up[d]
ServeNext ==
    \/ MainStep
    \/ SchedStep
    \/ Elapse
    \/ ConfigStep(1)
ServeSpec == ServeInit /\ [][ServeNext]_vars

\* a read that the driver can answer is answered
ReadAnswered == \E reply \in Replies : SchedReadOk(reply)

\* the process running for ever: the clock goes on beyond MaxTime, for the
\* configurations whose poll rates the window of instants can hold; main
\* and the polling task keep running, the clock keeps advancing, and the
\* errors of session.read on a live session do not go on for ever
LiveSettings ==
    {st \in SettingsChoices :
        \A i \in DOMAIN st.tags : st.tags[i].poll_rate_ms + MaxLag <= Horizon}

MainLiveInit == MainSpecInit /\ settings \in LiveSettings
MainLiveNext == MainNext \/ Slide

MainFairSpec ==
    /\ MainLiveInit
    /\ [][MainLiveNext]_vars
    /\ WF_vars(MainStep)
    /\ WF_vars(SchedStep)
    /\ WF_vars(Elapse \/ Slide)
    /\ SF_vars(ReadAnswered)

\* the configurations of short poll rates running for ever: main and the
\* polling task keep running, every read_tags call returns, with Ok or
\* with Err, and the clock keeps advancing
FastLiveNext == FastNext \/ Slide
FastFairSpec ==
    /\ FastInit
    /\ [][FastLiveNext]_vars
    /\ WF_vars(MainStep)
    /\ WF_vars(SchedStep)
    /\ WF_vars(Elapse \/ Slide)

----------------------------------------------------------------------------
(* Claims about the driver *)

RECURSIVE Pow(_, _)
Pow(b, n) == IF n = 0 THEN 1 ELSE b * Pow(b, n - 1)

\* C1: a connect call on a disconnected driver configured with
\* connect_retry_attempts = N whose attempts all fail (by error, by join
\* error or by timeout, each counted alike) makes at most N+1 underlying
\* attempts, returns an error after exactly the (N+1)-th, and never goes on
\* after it; with N = 0 that is one attempt and no retry.
C1_AtMostNPlusOneAttempts ==
    \A c \in Callers :
        op[c] = "connect" =>
            /\ made[c] <= max_retries + 1
            /\ (pc[c] = "done" /\ result[c] = "err")
                  => (made[c] = max_retries + 1 /\ outcome[c] \in FailureKinds)
            /\ (made[c] = max_retries + 1 /\ outcome[c] \in FailureKinds)
                  => (pc[c] = "done" /\ result[c] = "err")

C1_Witness ==
    \E c \in Callers :
        /\ op[c] = "connect" /\ pc[c] = "done" /\ result[c] = "err"
        /\ outcome[c] = "timeout"
        /\ max_retries = 2 /\ made[c] = 3

\* C2 as stated: the k-th sleep (k = 0..N-1) lasts exactly d * b^k ms, and a
\* failed call has slept once between each pair of consecutive attempts.
C2_GeometricSchedule ==
    \A c \in Callers :
        op[c] = "connect" =>
            \A k \in 1..Len(sleeps[c]) :
                sleeps[c][k] * Pow(backoff[2], k - 1)
                    = initial_delay * Pow(backoff[1], k - 1)

\* the delay before the (k+1)-th retry when every product is cut to whole ms
RECURSIVE TruncatedDelay(_)
TruncatedDelay(k) ==
    IF k = 0 THEN initial_delay
    ELSE (TruncatedDelay(k - 1) * backoff[1]) \div backoff[2]

Positive(d) == d > 0

\* C2 amended: the inter-attempt sleeps follow delay_0 = d,
\* delay_(k+1) = trunc(delay_k * b): after an attempt that is retried the call
\* sleeps delay_k ms if delay_k > 0 and does not sleep if delay_k = 0; there
\* is one such pause between each pair of consecutive attempts and none
\* after the final failed attempt.
C2_TruncatedSchedule ==
    \A c \in Callers :
        (op[c] = "connect" /\ made[c] > 0) =>
            /\ sleeps[c] = SelectSeq([k \in 1..attempt[c] |-> TruncatedDelay(k - 1)],
                                     Positive)
            /\ delay[c] = TruncatedDelay(attempt[c])
            /\ pc[c] \in {"done", "store_session", "backoff"}
                  => attempt[c] = made[c] - 1
            /\ pc[c] = "attempting" => attempt[c] = made[c]

C2_Witness ==
    \E c \in Callers :
        /\ op[c] = "connect" /\ pc[c] = "done" /\ result[c] = "err"
        /\ Len(sleeps[c]) = 2
        /\ sleeps[c][2] * backoff[2] # sleeps[c][1] * backoff[1]

\* the Connection Supervisor's state of a call
SupState(c) ==
    CASE op[c] # "connect" -> "Idle"
      [] pc[c] = "attempting" -> "Attempting"
      [] pc[c] = "backoff" -> "Backoff"
      [] pc[c] = "store_session" -> "Connected"
      [] pc[c] = "done" /\ made[c] = 0 -> "Idle"
      [] pc[c] = "done" /\ result[c] = "ok" -> "Connected"
      [] pc[c] = "done" /\ result[c] = "err" -> "Failed"
      [] OTHER -> "Idle"

SupTransitions ==
    {<<"Idle", "Attempting">>, <<"Attempting", "Connected">>,
     <<"Attempting", "Backoff">>, <<"Attempting", "Failed">>,
     <<"Backoff", "Attempting">>,
     <<"Connected", "Idle">>, <<"Failed", "Idle">>}

C3_Transitions ==
    \A c \in Callers :
        LET from == SupState(c)
            to == SupState(c)'
        IN /\ from # to => <<from, to>> \in SupTransitions
           /\ from \in {"Connected", "Failed"} => made'[c] \in {made[c], 0}
           /\ (from = "Attempting" /\ made'[c] # made[c]) =>
                 /\ to = "Connected" <=> outcome'[c] = "ok"
                 /\ to = "Backoff" <=>
                       (outcome'[c] \in FailureKinds /\ attempt[c] < max_retries)
                 /\ to = "Failed" <=>
                       (outcome'[c] \in FailureKinds /\ attempt[c] >= max_retries)
           /\ from = "Backoff" /\ to = "Attempting" => attempt'[c] = attempt[c] + 1

C3_Terminates ==
    \A c \in Callers :
        (SupState(c) = "Attempting") ~> (SupState(c) \in {"Connected", "Failed"})

\* C3: the supervisor moves Idle -> Attempting -> Connected | Backoff | Failed
\* only: a success leads to Connected, a failure with attempts remaining to
\* Backoff and back to Attempting, a failure with none remaining to Failed;
\* no attempt follows Connected or Failed within the call; and every call
\* that is Attempting eventually is Connected or Failed.
C3_Supervisor == [][C3_Transitions]_vars /\ C3_Terminates

C3_Witness ==
    \E c \in Callers :
        /\ SupState(c) = "Connected"
        /\ pc[c] = "done"
        /\ made[c] = 3
        /\ Len(sleeps[c]) = 2

\* C4: the client handle and the session handle are both absent or both
\* present in every reachable state.
C4_NoPartialState == (client = None) <=> (session = None)

\* C5: connect on a driver that is already connected (client and session
\* held) returns Ok at once, spawns no attempt and leaves client, session
\* and the session's connection untouched.
C5_ConnectIdempotent ==
    [][\A c \in Callers :
          (pc[c] = "idle" /\ op'[c] = "connect"
             /\ client # None /\ session # None) =>
                /\ pc'[c] = "done" /\ result'[c] = "ok"
                /\ made'[c] = 0
                /\ client' = client /\ session' = session
                /\ connected' = connected]_vars

C5_Witness ==
    \E c \in Callers :
        /\ op[c] = "connect" /\ pc[c] = "done" /\ result[c] = "ok"
        /\ made[c] = 0
        /\ client # None /\ session = client

C7_CheckStatus ==
    [][\A c \in Callers :
          (pc[c] = "idle" /\ op'[c] = "check_status") =>
                /\ pc'[c] = "done"
                /\ result'[c] = "ok" <=>
                      (session # None /\ session[1] \in connected)
                /\ client' = client /\ session' = session
                /\ connected' = connected /\ made' = made
                /\ \A o \in Callers \ {c} : pc'[o] = pc[o]]_vars

C7_Witness ==
    \E c \in Callers :
        /\ op[c] = "check_status" /\ pc[c] = "done" /\ result[c] = "err"
        /\ session # None /\ session[1] \notin connected

----------------------------------------------------------------------------
(* Claims about the tag engine *)

WriteMethods == {"register_tag", "update_tag_value"}

\* the TagValue a write call carries
WrittenBy(t) ==
    IF call[t].method = "register_tag" THEN call[t].arg[1].value
    ELSE call[t].arg[1]

\* the values of the write calls on p made so far that a read may see: the
\* latest write that returned and the writes in progress
PrecedingWrites(p) ==
    {v \in {latest[p]} : v # None}
      \cup {Some(WrittenBy(t)) : t \in {u \in Threads :
                 /\ call[u].method \in WriteMethods
                 /\ call[u].path = p
                 /\ tpc[u] # "done"}}

ReadReturns(t) ==
    /\ call[t].method = "read_tag"
    /\ tpc[t] = "clone"
    /\ tpc'[t] = "done"

\* C8: whatever register_tag, update_tag_value and read_tag calls run
\* concurrently, a read_tag of a registered path returns a whole TagValue
\* (value, quality and timestamp of one write) that a preceding register_tag
\* or update_tag_value call on that path carried, never a mixture.
C8_NoTornRead ==
    [][\A t \in Threads :
          ReadReturns(t) =>
              /\ ret'[t] # None
              /\ ret'[t] \in PrecedingWrites(call[t].path)]_vars

C8_Witness ==
    \E t \in Threads, u \in Threads :
        /\ call[t].method = "read_tag" /\ tpc[t] = "done" /\ ret[t] # None
        /\ call[u].method = "update_tag_value" /\ tpc[u] = "assign_rest"
        /\ call[u].path = call[t].path
        /\ ret[t] # call[u].arg

\* C9: a read_tag of p returns the TagValue of the most recent register_tag
\* or update_tag_value on p that has returned: a read made after
\* update_tag_value(p, v) returned true returns v unless a later write on p
\* has returned since, and then it returns that write's value.
C9_Linearizable ==
    [][/\ \A t \in Threads : ReadReturns(t) => ret'[t] = latest[call[t].path]
       /\ \A t \in Threads :
             (call[t].method = "update_tag_value" /\ tpc[t] = "assign_rest"
                /\ tpc'[t] = "done") =>
                   /\ ret'[t] = Some(TRUE)
                   /\ latest'[call[t].path] = call[t].arg
                   /\ ReadValue(tags', call[t].path) = call[t].arg]_vars

C9_Witness ==
    \E t \in Threads, u \in Threads :
        /\ call[t].method = "read_tag" /\ tpc[t] = "done"
        /\ ret[t] \in {Some(v) : v \in NewValues}
        /\ ret[t] = latest[call[t].path]
        /\ call[u].method = "register_tag" /\ tpc[u] = "done"
        /\ call[u].path = call[t].path
        /\ Some(WrittenBy(u)) # ret[t]

\* C10: register_tag is an upsert keyed by path: when it returns, the entry
\* of tag.path is the whole Tag passed in (value, driver id, address, poll
\* rate, metadata), whatever Tag was there before; every other entry is
\* untouched; a read_tag of tag.path then returns tag.value; and registering
\* a Tag that is already stored leaves the table as it was.
C10_RegisterUpsert ==
    [][\A t \in Threads :
          (tpc[t] = "insert" /\ tpc'[t] = "done") =>
              LET tag == call[t].arg[1] IN
                /\ tags' = [tags EXCEPT ![tag.path] = Some(tag)]
                /\ ReadValue(tags', tag.path) = Some(tag.value)
                /\ tags[tag.path] = Some(tag) => tags' = tags]_vars

C10_Witness ==
    \E t \in Threads :
        /\ call[t].method = "register_tag" /\ tpc[t] = "done"
        /\ ret[t] # None
        /\ ret[t] # Some(call[t].arg[1].driver_id)
        /\ tags[call[t].path] = call[t].arg

\* C11: update_tag_value(p, v) on a path p that is not registered returns
\* false and is a no-op: no entry is created, every stored Tag stays as it
\* is, no lock stays held, and read_tag(p) and get_tag_details(p) made on the
\* resulting table still return None.
C11_UpdateUnknownNoOp ==
    [][\A t \in Threads :
          (tpc[t] = "idle" /\ call'[t].method = "update_tag_value"
             /\ tags[call'[t].path] = None) =>
                LET p == call'[t].path IN
                  /\ tpc'[t] = "done"
                  /\ ret'[t] = Some(FALSE)
                  /\ tags' = tags
                  /\ lock' = lock
                  /\ ReadValue(tags', p) = None
                  /\ get_tag_details(tags', p) = None]_vars

C11_Witness ==
    \E t \in Threads, p \in Paths :
        /\ call[t].method = "update_tag_value" /\ tpc[t] = "done"
        /\ ret[t] = Some(FALSE)
        /\ tags[call[t].path] = None
        /\ tags[p] # None

\* an update_tag_value call on a registered path between get_mut and return
Updating(t) ==
    /\ call[t].method = "update_tag_value"
    /\ tpc[t] \in {"assign_value", "assign_rest"}

\* C12: update_tag_value(p, v) on a registered path p returns true and
\* replaces only the value slot of p: when it returns the value of p is v,
\* and at every step of the call the path, driver id, driver address, poll
\* rate and metadata of p and every other entry of the table are unchanged.
C12_UpdateOnlyValue ==
    [][\A t \in Threads :
          (Updating(t) /\ tpc'[t] # tpc[t]) =>
              LET p == call[t].path
                  old == tags[p][1]
                  new == tags'[p][1]
              IN /\ tags'[p] # None
                 /\ new = [old EXCEPT !.value = new.value]
                 /\ \A q \in Paths \ {p} : tags'[q] = tags[q]
                 /\ tpc'[t] = "done" =>
                       /\ ret'[t] = Some(TRUE)
                       /\ new.value = call[t].arg[1]]_vars

C12_Witness ==
    \E t \in Threads, q \in Paths :
        /\ call[t].method = "update_tag_value" /\ tpc[t] = "done"
        /\ ret[t] = Some(TRUE)
        /\ tags[call[t].path] # None
        /\ tags[call[t].path][1].value = call[t].arg[1]
        /\ tags[call[t].path][1].driver_id = "drv2"
        /\ q # call[t].path /\ tags[q] # None

----------------------------------------------------------------------------
(* Claims about main and the polling task *)

\* the keys a poll group can have under the configurations of the model
GroupKeys ==
    {<<st.tags[i].driver_id, st.tags[i].poll_rate_ms>> :
        st \in SettingsChoices, i \in 1..2}

\* the driver of a registered path and the tags polled together with it
DriverOf(p) == tags[p][1].driver_id
GroupOf(p) == GroupKey(tags[p][1])
GroupPaths(g) == {poll_groups[g][i] : i \in DOMAIN poll_groups[g]}

\* the value of p is one its own driver read at its own address
HasDriverValue(p) ==
    /\ tags[p] # None
    /\ tags[p][1].value.value = <<DriverOf(p), tags[p][1].driver_address>>

\* reads of the group of p fail for good: the session is not live, or an
\* address of the group is rejected before anything is read
ReadsFail(p) ==
    /\ tags[p] # None
    /\ \/ link[DriverOf(p)] # "live"
       \/ \E q \in Paths : /\ tags[q] # None
                           /\ GroupOf(q) = GroupOf(p)
                           /\ parse_node_id(tags[q][1].driver_address) = None

\* C13: every path registered before the polling task starts, whose driver
\* connected, eventually holds a value read from its driver, unless the
\* reads of that driver fail for good; this for every registered tag, two
\* tags of one (driver_id, address) and tags of a poll rate above 60 s
\* included.
C13_EveryTagUpdated ==
    \A p \in Paths :
        (spc = "wait" /\ tags[p] # None) ~> (HasDriverValue(p) \/ ReadsFail(p))

\* C14 as stated: two consecutive reads of a group are issued at least
\* poll_rate_ms - base_tick apart on the clock.
C14_ClockSeparation ==
    \A g \in DOMAIN history :
        Len(history[g]) = 2 =>
            history[g][2].at - history[g][1].at >= g[2] - base_interval

\* C14 amended: the ticks on which a group is polled have `now` values at
\* least poll_rate_ms apart: a group is polled on a tick only when
\* now - last_poll >= poll_rate_ms, and last_poll is then set to that tick's
\* now (the reads themselves, issued after the earlier groups of their tick
\* were processed, may lie closer together on the clock).
C14_TickSeparation ==
    \A g \in DOMAIN history :
        /\ Len(history[g]) = 2 =>
              history[g][2].tick - history[g][1].tick >= g[2]
        /\ Len(history[g]) >= 1 =>
              LET poll == history[g][Len(history[g])] IN
                /\ poll.at >= poll.tick
                /\ poll.result = "pending" => poll.tick = now
                /\ poll.result # "pending" =>
                      last_poll_times[g] = Some(poll.tick)

C14_Witness ==
    \E g \in DOMAIN history :
        /\ Len(history[g]) = 2
        /\ g[2] = 2
        /\ history[g][2].tick - history[g][1].tick = 2
        /\ history[g][2].at = history[g][1].at
        /\ history[g][2].result = "ok"

\* the polling task considers a group for the first time in this step
FirstConsidered(g) ==
    /\ spc = "scan"
    /\ cursor <= Len(group_order)
    /\ g = group_order[cursor]
    /\ last_poll_times[g] = None
    /\ <<spc, cursor>>' # <<spc, cursor>>

\* C15: last_poll starts so that every poll group, whatever its poll rate,
\* is due and polled on the first tick.
C15_FirstTickPollsAll ==
    [][\A g \in DOMAIN poll_groups : FirstConsidered(g) => spc' = "read"]_vars

\* the read of group g returns in this step
ReadReturnsFor(g) ==
    /\ spc = "read"
    /\ g = group_order[cursor]
    /\ spc' = "scan"

LatestPoll(h) == h[Len(h)]

\* C16: when the read of a due group fails, at the end of the group's
\* processing every tag of the group holds TagValue{Null, Bad} and last_poll
\* of the group is the tick's now, as after a successful read; and a group
\* whose latest read failed is not polled again before poll_rate_ms has
\* passed between the two ticks.
C16_FailureMarksBad ==
    [][\A g \in DOMAIN poll_groups :
          /\ ReadReturnsFor(g) =>
                /\ last_poll_times'[g] = Some(now)
                /\ cursor' = cursor + 1
                /\ LatestPoll(history'[g]).result = "err" =>
                      \A p \in GroupPaths(g) :
                          /\ tags'[p][1].value.value = Null
                          /\ tags'[p][1].value.quality = "Bad"
          /\ (spc = "scan" /\ spc' = "read" /\ g = group_order[cursor]
                /\ history[g] # <<>> /\ LatestPoll(history[g]).result = "err")
                => now - LatestPoll(history[g]).tick >= g[2]]_vars

C16_Witness ==
    \E g \in DOMAIN history :
        /\ Len(history[g]) = 2
        /\ history[g][1].result = "ok"
        /\ history[g][2].result = "err"
        /\ Cardinality(GroupPaths(g)) = 2
        /\ \A p \in GroupPaths(g) :
              /\ tags[p][1].value.value = Null
              /\ tags[p][1].value.quality = "Bad"
              /\ tags[p][1].value.timestamp = history[g][2].at
        /\ last_poll_times[g] = Some(history[g][2].tick)

AllBad(tb, g) == \A p \in GroupPaths(g) : tb[p][1].value.quality = "Bad"

\* the polling task has dealt with group g for this tick
Processed(g) ==
    /\ spc \in {"scan", "read"}
    /\ cursor <= Len(group_order)
    /\ g = group_order[cursor]
    /\ cursor' = cursor + 1

C18_OnlySessionFailureFails ==
    [][\A g \in DOMAIN poll_groups :
          (ReadReturnsFor(g) /\ link[g[1]] = "live") =>
              \/ LatestPoll(history'[g]).result = "ok"
              \/ LatestPoll(history'[g]).io]_vars

\* C19: a driver whose session is lost is reconnected: once its server is
\* reachable again it eventually holds a live session again.
C19_Reconnects ==
    \A d \in DriverIds :
        (link[d] = "lost" /\ server_up[d]) ~> (link[d] = "live")

\* C20: a connect failure at startup is not fatal: startup goes on to the
\* other drivers and to the registration of the tags.
C20_ConnectFailureNotFatal ==
    [][(mpc = "drivers" /\ mpc' # mpc) => mpc' = "tags"]_vars

\* the latest read of group g has failed / is in flight
LatestFailed(g) ==
    /\ g \in DOMAIN history
    /\ history[g] # <<>>
    /\ LatestPoll(history[g]).result = "err"
ReadInFlight(g) ==
    /\ g \in DOMAIN history
    /\ history[g] # <<>>
    /\ LatestPoll(history[g]).result = "pending"

\* the read of group g returns Ok in this step, its previous read had failed
SucceedsAfterFailure(g) ==
    /\ ReadReturnsFor(g)
    /\ Len(history[g]) = 2
    /\ history[g][1].result = "err"
    /\ LatestPoll(history'[g]).result = "ok"

\* C30: a read failure does not stop the polling task: after a failure of
\* any group the task reaches the await of its next tick again, the failed
\* group and every other group are read again, and a later successful read
\* of the failed group replaces the Bad markers of its tags with values read
\* from the driver.
C30_ErrorsNeverStop ==
    /\ \A g \in GroupKeys :
          /\ LatestFailed(g) ~> (spc = "wait")
          /\ \A h \in GroupKeys :
                (LatestFailed(g) /\ h \in DOMAIN history) ~> ReadInFlight(h)
    /\ [][\A g \in DOMAIN poll_groups :
             SucceedsAfterFailure(g) =>
                 \A p \in GroupPaths(g) :
                     /\ tags'[p][1].value.value # Null
                     /\ tags'[p][1].value.timestamp = time]_vars

\* the TagConfigs that startup has dealt with so far
Handled ==
    IF mpc = "tags" THEN 1..(idx - 1)
    ELSE IF mpc = "serving" THEN DOMAIN settings.tags
    ELSE {}

\* C21: every tag in the point table has a driver_id that is a key of the
\* driver registry; a configured tag whose driver_id is not in the registry
\* is not registered, and the other configured tags are registered as
\* configured.
C21_RegisteredTagsHaveDriver ==
    /\ \A p \in Paths :
          tags[p] # None => tags[p][1].driver_id \in driver_instances
    /\ \A i \in Handled :
          LET tc == settings.tags[i] IN
            IF tc.driver_id \in driver_instances
              THEN /\ tags[tc.path] # None
                   /\ tags[tc.path][1].driver_id = tc.driver_id
                   /\ tags[tc.path][1].driver_address = tc.address
                   /\ tags[tc.path][1].poll_rate_ms = tc.poll_rate_ms
              ELSE tags[tc.path] = None

C21_Witness ==
    /\ mpc = "serving"
    /\ \E i, j \in DOMAIN settings.tags :
          /\ i < j
          /\ settings.tags[i].driver_id \notin driver_instances
          /\ tags[settings.tags[i].path] = None
          /\ tags[settings.tags[j].path] # None

\* the number of times path p occurs in the sequence sq
Occurrences(sq, p) == Cardinality({i \in DOMAIN sq : sq[i] = p})

\* C27: once the polling task has built its groups, every registered tag
\* is in exactly one group, once, and that group is the one of its own
\* driver_id and poll_rate_ms; every path of a group is a registered tag.
C27_GroupsPartitionTags ==
    spc \notin {"off", "start"} =>
        /\ \A p \in Paths :
              tags[p] # None =>
                  LET k == <<tags[p][1].driver_id, tags[p][1].poll_rate_ms>> IN
                    /\ k \in DOMAIN poll_groups
                    /\ \A g \in DOMAIN poll_groups :
                          Occurrences(poll_groups[g], p) = IF g = k THEN 1 ELSE 0
        /\ \A g \in DOMAIN poll_groups :
              /\ poll_groups[g] # <<>>
              /\ \A i \in DOMAIN poll_groups[g] : tags[poll_groups[g][i]] # None

C27_Witness ==
    /\ spc = "wait"
    /\ \E g, h \in DOMAIN poll_groups :
          /\ g[1] = h[1]
          /\ g[2] # h[2]
          /\ Len(poll_groups[g]) = 1
          /\ Len(poll_groups[h]) = 1

\* the paths whose stored tag has this driver_id and this address
Matching(driver_id, address) ==
    {p \in Paths : /\ tags[p] # None
                   /\ tags[p][1].driver_id = driver_id
                   /\ tags[p][1].driver_address = address}

\* C26: find_path_by_address(driver_id, address) returns a path only if the
\* tag stored at it has that driver_id and that address, and returns None
\* exactly when no stored tag has the pair; with several matches it returns
\* one of them.
C26_FindByAddress ==
    \A d \in DriverIds, a \in Addresses :
        LET found == find_path_by_address(tags, d, a) IN
          /\ found = None <=> Matching(d, a) = {}
          /\ found # None => found[1] \in Matching(d, a)

C26_Witness ==
    /\ Matching("drv1", "ns=2;s=Temperature") = Paths
    /\ Matching("drv1", "ns=2;s=Pressure") = {}
    /\ find_path_by_address(tags, "drv1", "ns=2;s=Temperature")
           = Some("Device/Tag2")

\* the groups with a read in flight
InFlight == {g \in DOMAIN history : ReadInFlight(g)}

\* the updates that the result of the read of group g calls for are in tb
\* (was: the table before the read returned)
Applied(g, was, tb, res) ==
    IF res = "err"
      THEN \A p \in GroupPaths(g) :
               tb[p][1].value = bad("Bad", time)
      ELSE \A i \in DOMAIN poll_groups[g] :
               LET a == was[poll_groups[g][i]][1].driver_address
                   q == find_path_by_address(was, g[1], a)
               IN q # None =>
                     /\ tb[q[1]][1].value.value = <<g[1], a>>
                     /\ tb[q[1]][1].value.timestamp = time

\* C29: ticks do not overlap and the groups of a tick are processed one
\* after the other: at most one read issued by the polling task is in
\* flight, no group is considered and no tick starts while one is, and the
\* point table updates that a read's result calls for are all made in the
\* step in which the read returns, before the next group is considered.
C29_Sequential ==
    /\ [](/\ Cardinality(InFlight) <= 1
          /\ \A g \in InFlight :
                spc = "read" /\ g = group_order[cursor])
    /\ [][/\ (cursor' # cursor \/ now' # now \/ InFlight' # InFlight)
                => (InFlight = {} \/ InFlight' = {})
          /\ \A g \in DOMAIN poll_groups :
                ReadReturnsFor(g) =>
                    /\ cursor' = cursor + 1
                    /\ Applied(g, tags, tags', LatestPoll(history'[g]).result)
          /\ (spc \notin {"off", "start"} /\ tags' # tags /\ time' = time)
                => \E g \in DOMAIN poll_groups : ReadReturnsFor(g)]_vars

C29_Witness ==
    /\ spc = "scan"
    /\ cursor = 2
    /\ Len(group_order) = 2
    /\ LET g == group_order[1]
           h == group_order[2]
       IN /\ history[g] # <<>>
          /\ LatestPoll(history[g]).result = "ok"
          /\ LatestPoll(history[g]).tick = now
          /\ \E p \in GroupPaths(g) : HasDriverValue(p)
          /\ history[h] = <<>>
          /\ \A p \in GroupPaths(h) : tags[p][1].value.value = Null

----------------------------------------------------------------------------
(* Further claims about the tag engine *)

\* the paths that a register_tag call has stored at some time: latest[p] is
\* first set by the store of a register_tag
EverRegistered == {p \in Paths : latest[p] # None}

\* the set of the elements of a sequence
Range(sq) == {sq[i] : i \in DOMAIN sq}

\* C25: whatever register_tag, update_tag_value and read_tag calls were
\* made, in whatever interleaving, get_all_tag_paths returns exactly the
\* paths registered so far, each once: registering a path again does not
\* change the count, no operation removes an entry, and a read_tag of a
\* registered path does not return None.
C25_PathsPersist ==
    /\ [](/\ Range(get_all_tag_paths) = EverRegistered
          /\ Len(get_all_tag_paths) = Cardinality(EverRegistered))
    /\ [][/\ \A p \in Paths : tags[p] # None => tags'[p] # None
          /\ \A t \in Threads :
                /\ (tpc[t] = "insert" /\ tpc'[t] = "done"
                      /\ tags[call[t].path] # None)
                       => Len(get_all_tag_paths') = Len(get_all_tag_paths)
                /\ (call'[t].method = "read_tag" /\ tpc'[t] = "done"
                      /\ tpc[t] # "done" /\ call'[t].path \in EverRegistered)
                       => ret'[t] # None]_vars

C25_Witness ==
    /\ EverRegistered = Paths
    /\ get_all_tag_paths = <<"Device/Tag1", "Device/Tag2">>
    /\ \E t, u \in Threads :
          /\ call[t].method = "register_tag" /\ tpc[t] = "done"
          /\ ret[t] # None
          /\ call[u].method = "read_tag" /\ tpc[u] = "done"
          /\ call[u].path = call[t].path
          /\ ret[u] # None

----------------------------------------------------------------------------
(* Further claims about the driver *)

RECURSIVE Sum(_)
Sum(sq) == IF sq = <<>> THEN 0 ELSE Head(sq) + Sum(Tail(sq))

\* the k-th of the delays delay_0 = d, delay_(k+1) = trunc(delay_k * b)
RECURSIVE ScheduledDelay(_, _, _)
ScheduledDelay(d, b, k) ==
    IF k = 0 THEN d ELSE (ScheduledDelay(d, b, k - 1) * b[1]) \div b[2]

\* the deadlines of the attempts a call has made and its sleeps, in ms
Spent(c) == made[c] * timeout_ms + Sum(sleeps[c])

\* C24: the deadlines of all the attempts of a connect call and all its
\* sleeps add up to at most (N+1) * timeout plus the N scheduled sleeps;
\* for attempts = 3, delay = 100 ms, backoff = 1.5 and timeout = 500 ms a
\* call whose attempts all fail or time out has returned its error when
\* that sum is at most 3000 ms.
C24_ConnectBounded ==
    \A c \in Callers :
        op[c] = "connect" =>
            /\ Spent(c) <= (max_retries + 1) * timeout_ms
                  + Sum([k \in 1..max_retries |->
                           ScheduledDelay(initial_delay, backoff, k - 1)])
            /\ config = UnreachableConfig =>
                  /\ Spent(c) <= 3000
                  /\ (made[c] = 4 /\ outcome[c] \in FailureKinds)
                        => (pc[c] = "done" /\ result[c] = "err")

C24_Witness ==
    \E c \in Callers :
        /\ config = UnreachableConfig
        /\ op[c] = "connect" /\ pc[c] = "done" /\ result[c] = "err"
        /\ outcome[c] = "timeout"
        /\ made[c] = 4
        /\ sleeps[c] = <<100, 150, 225>>
        /\ Spent(c) = 2475

----------------------------------------------------------------------------
(* Claims about tags registered while the polling task runs *)

\* C28: the poll groups are built once: a tag registered after that is in no
\* group, so the polling task sends no request for it, and the polling task
\* never changes its value, neither when a read succeeds nor when one fails.
C28_LateTagsNotPolled ==
    /\ [](\A p \in late, g \in DOMAIN poll_groups : p \notin GroupPaths(g))
    /\ [][\A p \in late : tags'[p] = tags[p]]_vars

----------------------------------------------------------------------------
(* Claims about the HTTP handlers *)

\* the handler of client r ends in this step
Responds(r) == apc[r] # "done" /\ apc'[r] = "done"

\* C22: PUT /api/config whose save fails answers 500 with the error and
\* leaves the in-memory Settings as they are, so that a GET /api/config
\* returns what it returned before; PUT /api/config whose save succeeds
\* replaces the in-memory Settings by the new ones and answers 200; GET
\* /api/config answers with the in-memory Settings; nothing else changes
\* them.
C22_ConfigPutAtomic ==
    [][/\ \A r \in Clients :
            /\ (apc[r] = "idle" /\ areq'[r].endpoint = "put_config") =>
                  /\ settings_arc' = settings_arc
                  /\ IF areq'[r].outcome = Some("ok")
                       THEN apc'[r] = "stored"
                       ELSE /\ apc'[r] = "done"
                            /\ aresp'[r][1].status = 500
                            /\ aresp'[r][1].body.error # ""
            /\ (apc[r] = "stored" /\ Responds(r)) =>
                  /\ areq[r].outcome = Some("ok")
                  /\ settings_arc' = areq[r].arg
                  /\ aresp'[r][1].status = 200
            /\ (Responds(r) /\ areq'[r].endpoint = "get_config") =>
                  /\ aresp'[r][1] = Response(200, settings_arc)
                  /\ settings_arc' = settings_arc
       /\ settings_arc' # settings_arc =>
            \E r \in Clients : apc[r] = "stored" /\ Responds(r)]_vars

C22_Witness ==
    \E r, q \in Clients :
        /\ apc[r] = "done"
        /\ areq[r].endpoint = "put_config"
        /\ areq[r].outcome = Some("denied")
        /\ aresp[r][1].status = 500
        /\ apc[q] = "done"
        /\ areq[q].endpoint = "get_config"
        /\ aresp[q][1].body = settings_arc
        /\ settings_arc # areq[r].arg
        /\ disk = Some(settings_arc)

\* the status that C23 gives the request of client r
Classified(r) ==
    IF areq[r].arg \notin driver_instances THEN 404
    ELSE IF kind[areq[r].arg] # "opcua" THEN 400
    ELSE IF areq[r].outcome[1].err # None THEN 500
    ELSE 200

\* C23: the browse and the discover-tags handler answer every request with
\* exactly one of: 404 when the driver id is not in the registry, 400 when
\* the driver is not an OPC UA driver, 500 when the driver call returns an
\* error, 200 otherwise; a response other than 200 has a non-empty error
\* and no items, a 200 has no error and the items the driver returned.
C23_BrowseOutcomes ==
    \A r \in Clients :
        (apc[r] = "done" /\ areq[r].endpoint \in DriverEndpoints) =>
            LET resp == aresp[r][1] IN
              /\ resp.status = Classified(r)
              /\ resp.status # 200 =>
                    /\ resp.body.error # None
                    /\ resp.body.error[1] # ""
                    /\ resp.body.items = <<>>
              /\ resp.status = 200 =>
                    /\ resp.body.error = None
                    /\ resp.body.items = areq[r].outcome[1].items

C23_Witness ==
    \E r, q \in Clients :
        /\ apc[r] = "done" /\ apc[q] = "done"
        /\ areq[r].endpoint = "browse" /\ areq[q].endpoint = "browse"
        /\ aresp[r][1].status = 404
        /\ aresp[r][1].body = BrowseResponse(<<>>, Some("Driver 'nonexistent' not found"))
        /\ aresp[q][1].status = 200
        /\ aresp[q][1].body = BrowseResponse(<<>>, None)
        /\ \E d \in driver_instances : kind[d] = "other"

----------------------------------------------------------------------------
(* Claims about failed, concurrent and unimplemented driver calls *)

\* the call of caller c returns in this step
Returns(c) == pc[c] # "done" /\ pc'[c] = "done"

\* C32: a connect call that returns an error has stored no handle: the step
\* in which it returns changes neither handle, and when no other task
\* calls the driver it holds neither a client nor a session afterwards;
\* on a driver without a session check_status fails, and read_tags fails
\* as not connected and changes nothing of the driver.
C32_FailedConnectStoresNothing ==
    /\ [](\A c \in Callers :
            (tasks = {c} /\ op[c] = "connect" /\ pc[c] = "done"
               /\ result[c] = "err") =>
                  /\ client = None /\ session = None
                  /\ ~StatusOk(session, connected))
    /\ [][\A c \in Callers :
            /\ (op[c] = "connect" /\ Returns(c) /\ result'[c] = "err") =>
                  /\ local[c] = None
                  /\ client' = client /\ session' = session
                  /\ connected' = connected
            /\ (session = None /\ pc[c] = "idle"
                  /\ op'[c] = "check_status") => result'[c] = "err"
            /\ (session = None /\ pc[c] = "idle" /\ op'[c] = "read_tags") =>
                  /\ result'[c] = "err"
                  /\ outcome'[c] = "not connected"
                  /\ client' = client /\ session' = session
                  /\ connected' = connected
                  /\ \A o \in Callers \ {c} : pc'[o] = pc[o]]_vars

C32_Witness ==
    \E c, o \in Callers :
        /\ op[c] = "connect" /\ pc[c] = "done" /\ result[c] = "err"
        /\ made[c] = 1
        /\ op[o] = "read_tags" /\ pc[o] = "done" /\ result[o] = "err"
        /\ outcome[o] = "not connected"
        /\ client = None /\ session = None

\* C33: once a connect call and a disconnect that was issued while that
\* connect call was in progress have both returned, the driver holds no
\* client and no session and check_status fails.
C33_DisconnectWhileConnecting ==
    \A c, o \in Callers :
        (/\ op[o] = "disconnect" /\ pc[o] = "done"
         /\ c \in overlap[o]
         /\ op[c] = "connect" /\ pc[c] = "done") =>
            /\ client = None
            /\ session = None
            /\ ~StatusOk(session, connected)

\* C34: every write_tags call is rejected with a 'not implemented' error,
\* and changes neither the driver nor the tag table.
C34_WriteRejected ==
    [][\A c \in Callers :
          (pc[c] = "idle" /\ op'[c] = "write_tags") =>
                /\ result'[c] = "err"
                /\ outcome'[c] = "not implemented"
                /\ client' = client /\ session' = session
                /\ connected' = connected
                /\ tags' = tags]_vars

\* C35: when two connect calls that both found the driver disconnected have
\* returned Ok, and no disconnect is in progress, the driver is as after one
\* connect: it holds the client and the session of one attempt, and no
\* other session is established.
C35_ConcurrentConnectOnce ==
    \A c, o \in Callers :
        (/\ c # o
         /\ op[c] = "connect" /\ pc[c] = "done" /\ result[c] = "ok"
         /\ op[o] = "connect" /\ pc[o] = "done" /\ result[o] = "ok"
         /\ made[c] >= 1 /\ made[o] >= 1
         /\ \A x \in Callers : op[x] # "disconnect") =>
            /\ client # None
            /\ session = client
            /\ \A s \in connected : session = Some(s)

----------------------------------------------------------------------------
(* Further claims about PUT /api/config *)

\* a PUT /api/config is being handled: it has saved and not yet assigned
PutInProgress == \E r \in Clients : apc[r] = "stored"

\* C36: whenever no PUT /api/config is in progress and config.toml holds
\* Settings, the in-memory Settings are the Settings in config.toml.
C36_MemoryEqualsDisk ==
    (~PutInProgress /\ disk # None) => disk = Some(settings_arc)

\* the tag that main registers for path p from the Settings st, if any
ConfiguredIn(st, p) ==
    {i \in DOMAIN st.tags :
        /\ st.tags[i].path = p
        /\ st.tags[i].driver_id \in Devices(st)}

\* C40: the steps of a PUT /api/config leave the tag table, the driver
\* registry, the driver count and the poll groups as they are; a
\* successful PUT writes the new Settings to config.toml and assigns them
\* to the in-memory Settings; the registered tags and the registry stay
\* those of the Settings loaded at startup, whatever the in-memory Settings
\* are.
C40_PutChangesOnlySettings ==
    /\ [][\A r \in Clients :
            /\ (apc[r] = "idle" /\ areq'[r].endpoint = "put_config") =>
                  /\ <<tags, driver_instances, driver_count, poll_groups,
                       group_order, link, kind>>' =
                     <<tags, driver_instances, driver_count, poll_groups,
                       group_order, link, kind>>
                  /\ areq'[r].outcome = Some("ok") => disk' = Some(areq'[r].arg)
            /\ (apc[r] = "stored" /\ Responds(r)) =>
                  /\ <<tags, driver_instances, driver_count, poll_groups,
                       group_order, link, kind>>' =
                     <<tags, driver_instances, driver_count, poll_groups,
                       group_order, link, kind>>
                  /\ settings_arc' = areq[r].arg]_vars
    /\ [](mpc = "serving" =>
            /\ driver_instances = Devices(settings)
            /\ \A p \in Paths :
                 (tags[p] # None) <=> (ConfiguredIn(settings, p) # {})
            /\ spc \notin {"off", "start"} =>
                 \A p \in Paths :
                    (tags[p] # None) <=>
                       (\E g \in DOMAIN poll_groups :
                           \E i \in DOMAIN poll_groups[g] :
                               poll_groups[g][i] = p))

C40_Witness ==
    \E r \in Clients :
        /\ apc[r] = "done"
        /\ areq[r].endpoint = "put_config"
        /\ aresp[r][1].status = 200
        /\ settings_arc = areq[r].arg
        /\ disk = Some(settings_arc)
        /\ settings_arc # settings
        /\ Devices(settings_arc) # driver_instances
        /\ \E p \in Paths : tags[p] # None /\ ConfiguredIn(settings_arc, p) = {}
        /\ \E g \in DOMAIN history :
              /\ history[g] # <<>>
              /\ LatestPoll(history[g]).result = "ok"
              /\ LatestPoll(history[g]).at > 0

----------------------------------------------------------------------------
(* Further claims about the polling task *)

\* C37: a read of group g that returns Ok changes the value of no tag
\* outside g.
C37_PollChangesOnlyGroup ==
    [][\A g \in DOMAIN poll_groups :
          (ReadReturnsFor(g) /\ LatestPoll(history'[g]).result = "ok") =>
              \A p \in Paths \ GroupPaths(g) : tags'[p] = tags[p]]_vars

\* the failure marker that the polling task stores
IsBadMarker(v) == v.value = Null /\ v.quality = "Bad"

\* C38: the value of every tag in the table is the failure marker or a
\* value that the tag's own driver returned for the tag's own address, and
\* every step of the polling task that changes a tag stores one of the two.
C38_ValuesFromOwnAddress ==
    /\ [](\A p \in Paths :
            tags[p] # None => (IsBadMarker(tags[p][1].value) \/ HasDriverValue(p)))
    /\ [][\A p \in Paths :
            (tags[p] # None /\ tags'[p] # tags[p]) =>
                \/ IsBadMarker(tags'[p][1].value)
                \/ tags'[p][1].value.value =
                       <<tags[p][1].driver_id, tags[p][1].driver_address>>]_vars

C38_Witness ==
    /\ \A p \in Paths : HasDriverValue(p)
    /\ tags["Device/Tag1"][1].value.value # tags["Device/Tag2"][1].value.value
    /\ DriverOf("Device/Tag1") = DriverOf("Device/Tag2")
    /\ \E p \in Paths : tags[p][1].value.quality = "Bad"

\* the keys of the poll groups under FastSettings
FastGroupKeys ==
    {<<st.tags[i].driver_id, st.tags[i].poll_rate_ms>> :
        st \in FastSettings, i \in 1..2}

----------------------------------------------------------------------------
(* Claims about the driver's locks *)

\* the callers inside a call
InCall == {c \in Callers : pc[c] \notin {"idle", "done"}}

\* C39: concurrent calls of connect, disconnect, check_status and read_tags
\* never deadlock: at most one task holds a mutex, a session's write lock
\* excludes its other holders, whenever a call is in progress some call in
\* progress can take a step, and every call returns.
C39_NoDeadlock ==
    /\ [](/\ \A lk \in {"client", "session"} :
                Cardinality({c \in Callers : pc[c] \in Guards(lk)}) <= 1
          /\ \A s \in SessionIds :
                Writers(s) # {} =>
                    Cardinality(Writers(s)) = 1 /\ Readers(s) = {}
          /\ InCall # {} => \E c \in InCall : ENABLED LockProgress(c))
    /\ \A c \in Callers : (c \in InCall) ~> (pc[c] = "done")

C39_Witness ==
    \E c, o \in Callers :
        /\ pc[c] = "status: locked"
        /\ session # None
        /\ pc[o] = "reading tags"
        /\ local[o] = session
        /\ ~ENABLED LockProgress(c)

====
